---- MODULE Spec2Model ----
(***************************************************************************)
(* Export / import of the account backups as a password-protected file,   *)
(* the password dialog, and the in-flight flags of the toolbar             *)
(* (useConfigStore, AppContent, Toolbar, AppUserPanel, useTrayMenu).       *)
(*                                                                         *)
(* Text is a sequence of character codes; the encrypted file is a          *)
(* sequence of Base64 symbols: 0..63 are the alphabet, 64 is the padding   *)
(* character '=' and 65 stands for any character outside the alphabet.     *)
(***************************************************************************)
EXTENDS Integers, Sequences, FiniteSets, TLC

(* ---------- bounds and program constants ---------- *)
MaxFlows == 2
MaxEntries == 2
MaxRuns == 1
MaxAccounts == 2
MaxLiveFiles == 2
MaxClock == 3
MaxDigits == 2
MaxBumps == 2
MaxToggles == 2
MaxFetches == 2
MinPasswordLength == 4
MaxPasswordLength == 50
JsonIndent == 2

(* ---------- bytes: XOR with the password, Base64 text ---------- *)
Bit(a, i) == (a \div (2 ^ i)) % 2
XorByte(a, b) ==
    LET x(i) == ((Bit(a, i) + Bit(b, i)) % 2) * (2 ^ i)
    IN x(0) + x(1) + x(2) + x(3) + x(4) + x(5) + x(6) + x(7)

XorWithKey(bytes, key) ==
    [i \in 1..Len(bytes) |-> XorByte(bytes[i], key[((i - 1) % Len(key)) + 1])]

Base64Encode(bytes) ==
    LET n == Len(bytes)
        groups == (n + 2) \div 3
        b(k) == IF k <= n THEN bytes[k] ELSE 0
        sym(j) ==
            LET g == (j - 1) \div 4
                r == (j - 1) % 4
                b0 == b(3 * g + 1)
                b1 == b(3 * g + 2)
                b2 == b(3 * g + 3)
            IN CASE r = 0 -> b0 \div 4
                 [] r = 1 -> (b0 % 4) * 16 + (b1 \div 16)
                 [] r = 2 -> IF 3 * g + 2 > n THEN 64 ELSE (b1 % 16) * 4 + (b2 \div 64)
                 [] r = 3 -> IF 3 * g + 3 > n THEN 64 ELSE b2 % 64
    IN [j \in 1..(4 * groups) |-> sym(j)]

Base64Decode(syms) ==
    LET m == Len(syms)
        pad == IF m >= 2 /\ syms[m] = 64 THEN (IF syms[m - 1] = 64 THEN 2 ELSE 1) ELSE 0
        n == (m \div 4) * 3 - pad
        v(j) == IF syms[j] = 64 THEN 0 ELSE syms[j]
        byte(k) ==
            LET g == (k - 1) \div 3
                r == (k - 1) % 3
                s0 == v(4 * g + 1)
                s1 == v(4 * g + 2)
                s2 == v(4 * g + 3)
                s3 == v(4 * g + 4)
            IN CASE r = 0 -> s0 * 4 + (s1 \div 16)
                 [] r = 1 -> (s1 % 16) * 16 + (s2 \div 4)
                 [] r = 2 -> (s2 % 4) * 64 + s3
        wellFormed ==
            /\ m % 4 = 0
            /\ \A j \in 1..m : syms[j] \in 0..64
            /\ \A j \in 1..(m - pad) : syms[j] # 64
            /\ pad = 1 => syms[m - 1] % 4 = 0
            /\ pad = 2 => syms[m - 2] % 16 = 0
    IN IF wellFormed THEN [ok |-> TRUE, bytes |-> [k \in 1..n |-> byte(k)]]
       ELSE [ok |-> FALSE, bytes |-> <<>>]

(* ---------- UTF-8 ---------- *)
EncodeCodePoint(c) ==
    IF c < 128 THEN <<c>>
    ELSE IF c < 2048 THEN <<192 + (c \div 64), 128 + (c % 64)>>
    ELSE <<224 + (c \div 4096), 128 + ((c \div 64) % 64), 128 + (c % 64)>>

RECURSIVE Utf8EncodeRange(_, _, _)
Utf8EncodeRange(cps, lo, hi) ==
    IF lo > hi THEN <<>>
    ELSE IF lo = hi THEN EncodeCodePoint(cps[lo])
    ELSE Utf8EncodeRange(cps, lo, (lo + hi) \div 2)
         \o Utf8EncodeRange(cps, ((lo + hi) \div 2) + 1, hi)

Utf8Encode(cps) == Utf8EncodeRange(cps, 1, Len(cps))

IsCont(bytes, i) == i >= 1 /\ i <= Len(bytes) /\ bytes[i] \in 128..191

SeqLen(b) ==
    CASE b < 128 -> 1
      [] b \in 194..223 -> 2
      [] b \in 224..239 -> 3
      [] b \in 240..244 -> 4
      [] OTHER -> 0

LeadOk(bytes, i) ==
    LET b == bytes[i]
        n == SeqLen(b)
    IN /\ n > 0
       /\ \A k \in 1..(n - 1) : IsCont(bytes, i + k)
       /\ ~IsCont(bytes, i + n)
       /\ (b = 224 => bytes[i + 1] >= 160)
       /\ (b = 237 => bytes[i + 1] <= 159)
       /\ (b = 240 => bytes[i + 1] >= 144)
       /\ (b = 244 => bytes[i + 1] <= 143)

CodePointAt(bytes, i) ==
    LET b == bytes[i]
        c(k) == bytes[i + k] - 128
    IN CASE SeqLen(b) = 1 -> b
         [] SeqLen(b) = 2 -> (b - 192) * 64 + c(1)
         [] SeqLen(b) = 3 -> (b - 224) * 4096 + c(1) * 64 + c(2)
         [] OTHER -> (b - 240) * 262144 + c(1) * 4096 + c(2) * 64 + c(3)

Utf8Decode(bytes) ==
    LET isLead(i) == ~IsCont(bytes, i)
        leads == SelectSeq([i \in 1..Len(bytes) |-> i], isLead)
        valid == /\ ~IsCont(bytes, 1)
                 /\ \A i \in 1..Len(bytes) : isLead(i) => LeadOk(bytes, i)
    IN IF valid
       THEN [ok |-> TRUE, text |-> [k \in 1..Len(leads) |-> CodePointAt(bytes, leads[k])]]
       ELSE [ok |-> FALSE, text |-> <<>>]

(* ---------- JSON values ---------- *)
JV(tag, num, str, ks, vs) == [t |-> tag, n |-> num, s |-> str, keys |-> ks, kids |-> vs]
JUndefined == JV("undefined", 0, <<>>, <<>>, <<>>)
JNull == JV("null", 0, <<>>, <<>>, <<>>)
JBool(b) == JV(IF b THEN "true" ELSE "false", 0, <<>>, <<>>, <<>>)
JNum(k) == JV("num", k, <<>>, <<>>, <<>>)
JStr(chars) == JV("str", 0, chars, <<>>, <<>>)
JArr(vs) == JV("arr", 0, <<>>, <<>>, vs)
JObj(ks, vs) == JV("obj", 0, <<>>, ks, vs)

IndexOfKey(ks, key) ==
    IF \E i \in 1..Len(ks) : ks[i] = key
    THEN CHOOSE i \in 1..Len(ks) : ks[i] = key
    ELSE 0

GetProp(v, key) ==
    IF v.t = "obj" /\ IndexOfKey(v.keys, key) > 0
    THEN v.kids[IndexOfKey(v.keys, key)]
    ELSE JUndefined

MantissaNonZero(lit) ==
    \E i \in 1..Len(lit) :
        /\ lit[i] \in 49..57
        /\ \A j \in 1..i : lit[j] \notin {69, 101}

Truthy(v) ==
    CASE v.t \in {"undefined", "null", "false"} -> FALSE
      [] v.t = "num" -> IF v.s = <<>> THEN v.n # 0 ELSE MantissaNonZero(v.s)
      [] v.t = "str" -> v.s # <<>>
      [] OTHER -> TRUE

(* ---------- JSON.stringify(value, null, indent) ---------- *)
RECURSIVE DigitsOf(_)
DigitsOf(k) == IF k < 10 THEN <<48 + k>> ELSE Append(DigitsOf(k \div 10), 48 + (k % 10))

NumberToText(k) == IF k < 0 THEN <<45>> \o DigitsOf(0 - k) ELSE DigitsOf(k)

HexDigit(d) == IF d < 10 THEN 48 + d ELSE 87 + d

EscapeChar(c) ==
    CASE c = 34 -> <<92, 34>>
      [] c = 92 -> <<92, 92>>
      [] c = 8 -> <<92, 98>>
      [] c = 9 -> <<92, 116>>
      [] c = 10 -> <<92, 110>>
      [] c = 12 -> <<92, 102>>
      [] c = 13 -> <<92, 114>>
      [] c < 32 -> <<92, 117, 48, 48, HexDigit(c \div 16), HexDigit(c % 16)>>
      [] OTHER -> <<c>>

RECURSIVE EscapeFrom(_, _)
EscapeFrom(chars, i) ==
    IF i > Len(chars) THEN <<>> ELSE EscapeChar(chars[i]) \o EscapeFrom(chars, i + 1)

Quote(chars) == <<34>> \o EscapeFrom(chars, 1) \o <<34>>

Spaces(k) == [i \in 1..k |-> 32]

RECURSIVE StringifyAt(_, _, _), StringifyItems(_, _, _, _)
StringifyAt(v, indent, depth) ==
    CASE v.t = "null" -> <<110, 117, 108, 108>>
      [] v.t = "true" -> <<116, 114, 117, 101>>
      [] v.t = "false" -> <<102, 97, 108, 115, 101>>
      [] v.t = "num" -> IF v.s = <<>> THEN NumberToText(v.n) ELSE v.s
      [] v.t = "str" -> Quote(v.s)
      [] v.t = "arr" ->
            IF v.kids = <<>> THEN <<91, 93>>
            ELSE <<91, 10>> \o StringifyItems(v, indent, depth + 1, 1)
                 \o <<10>> \o Spaces(indent * depth) \o <<93>>
      [] v.t = "obj" ->
            IF v.kids = <<>> THEN <<123, 125>>
            ELSE <<123, 10>> \o StringifyItems(v, indent, depth + 1, 1)
                 \o <<10>> \o Spaces(indent * depth) \o <<125>>

StringifyItems(v, indent, depth, k) ==
    LET item == Spaces(indent * depth)
                \o (IF v.t = "obj" THEN Quote(v.keys[k]) \o <<58, 32>> ELSE <<>>)
                \o StringifyAt(v.kids[k], indent, depth)
    IN IF k = Len(v.kids) THEN item
       ELSE item \o <<44, 10>> \o StringifyItems(v, indent, depth, k + 1)

JsonStringify(v, indent) == StringifyAt(v, indent, 0)

(* ---------- JSON.parse ---------- *)
PFail == [ok |-> FALSE, v |-> JUndefined, i |-> 0]
POk(val, next) == [ok |-> TRUE, v |-> val, i |-> next]

At(txt, i) == IF i <= Len(txt) THEN txt[i] ELSE 0 - 1

RECURSIVE SkipWs(_, _)
SkipWs(txt, i) == IF At(txt, i) \in {32, 9, 10, 13} THEN SkipWs(txt, i + 1) ELSE i

IsDigit(c) == c \in 48..57

HexVal(c) ==
    CASE c \in 48..57 -> c - 48
      [] c \in 65..70 -> c - 55
      [] c \in 97..102 -> c - 87
      [] OTHER -> 0 - 1

RECURSIVE ParseChars(_, _, _)
ParseChars(txt, i, acc) ==
    LET c == At(txt, i)
    IN IF c < 32 THEN PFail
       ELSE IF c = 34 THEN POk(JStr(acc), i + 1)
       ELSE IF c = 92 THEN
           LET e == At(txt, i + 1)
           IN CASE e \in {34, 92, 47} -> ParseChars(txt, i + 2, Append(acc, e))
                [] e = 98 -> ParseChars(txt, i + 2, Append(acc, 8))
                [] e = 102 -> ParseChars(txt, i + 2, Append(acc, 12))
                [] e = 110 -> ParseChars(txt, i + 2, Append(acc, 10))
                [] e = 114 -> ParseChars(txt, i + 2, Append(acc, 13))
                [] e = 116 -> ParseChars(txt, i + 2, Append(acc, 9))
                [] e = 117 ->
                     LET h(k) == HexVal(At(txt, i + 1 + k))
                     IN IF \A k \in 1..4 : h(k) >= 0
                        THEN ParseChars(txt, i + 6,
                                Append(acc, h(1) * 4096 + h(2) * 256 + h(3) * 16 + h(4)))
                        ELSE PFail
                [] OTHER -> PFail
       ELSE ParseChars(txt, i + 1, Append(acc, c))

ParseString(txt, i) == IF At(txt, i) = 34 THEN ParseChars(txt, i + 1, <<>>) ELSE PFail

RECURSIVE DigitsEnd(_, _)
DigitsEnd(txt, i) == IF IsDigit(At(txt, i)) THEN DigitsEnd(txt, i + 1) ELSE i

RECURSIVE DigitsValue(_, _, _)
DigitsValue(txt, i, j) ==
    IF j < i THEN 0 ELSE DigitsValue(txt, i, j - 1) * 10 + (txt[j] - 48)

ParseNumber(txt, i) ==
    LET neg == At(txt, i) = 45
        d0 == IF neg THEN i + 1 ELSE i
        d1 == IF At(txt, d0) = 48 THEN d0 + 1 ELSE DigitsEnd(txt, d0)
        f1 == IF At(txt, d1) = 46 THEN DigitsEnd(txt, d1 + 1) ELSE d1
        fracOk == At(txt, d1) = 46 => f1 > d1 + 1
        hasExp == At(txt, f1) \in {69, 101}
        x0 == IF At(txt, f1 + 1) \in {43, 45} THEN f1 + 2 ELSE f1 + 1
        x1 == IF hasExp THEN DigitsEnd(txt, x0) ELSE f1
        expOk == hasExp => x1 > x0
        mag == DigitsValue(txt, d0, d1 - 1)
    IN IF d1 = d0 \/ ~fracOk \/ ~expOk THEN PFail
       ELSE IF x1 = d1 THEN POk(JNum(IF neg THEN 0 - mag ELSE mag), x1)
       ELSE POk(JV("num", 0, SubSeq(txt, i, x1 - 1), <<>>, <<>>), x1)

Matches(txt, i, word) ==
    /\ i + Len(word) - 1 <= Len(txt)
    /\ SubSeq(txt, i, i + Len(word) - 1) = word

PutMember(obj, key, val) ==
    IF IndexOfKey(obj.keys, key) > 0
    THEN JObj(obj.keys, [obj.kids EXCEPT ![IndexOfKey(obj.keys, key)] = val])
    ELSE JObj(Append(obj.keys, key), Append(obj.kids, val))

RECURSIVE ParseValue(_, _), ParseElements(_, _, _), ParseMembers(_, _, _)
ParseValue(txt, i) ==
    LET c == At(txt, i)
    IN CASE c = 34 -> ParseString(txt, i)
         [] c = 91 ->
              IF At(txt, SkipWs(txt, i + 1)) = 93
              THEN POk(JArr(<<>>), SkipWs(txt, i + 1) + 1)
              ELSE ParseElements(txt, SkipWs(txt, i + 1), <<>>)
         [] c = 123 ->
              IF At(txt, SkipWs(txt, i + 1)) = 125
              THEN POk(JObj(<<>>, <<>>), SkipWs(txt, i + 1) + 1)
              ELSE ParseMembers(txt, SkipWs(txt, i + 1), JObj(<<>>, <<>>))
         [] c = 116 -> IF Matches(txt, i, <<116, 114, 117, 101>>)
                       THEN POk(JBool(TRUE), i + 4) ELSE PFail
         [] c = 102 -> IF Matches(txt, i, <<102, 97, 108, 115, 101>>)
                       THEN POk(JBool(FALSE), i + 5) ELSE PFail
         [] c = 110 -> IF Matches(txt, i, <<110, 117, 108, 108>>)
                       THEN POk(JNull, i + 4) ELSE PFail
         [] c = 45 \/ IsDigit(c) -> ParseNumber(txt, i)
         [] OTHER -> PFail

ParseElements(txt, i, acc) ==
    LET r == ParseValue(txt, i)
        j == SkipWs(txt, r.i)
    IN IF ~r.ok THEN PFail
       ELSE IF At(txt, j) = 44 THEN ParseElements(txt, SkipWs(txt, j + 1), Append(acc, r.v))
       ELSE IF At(txt, j) = 93 THEN POk(JArr(Append(acc, r.v)), j + 1)
       ELSE PFail

ParseMembers(txt, i, acc) ==
    LET k == ParseString(txt, i)
        c == SkipWs(txt, k.i)
        r == ParseValue(txt, SkipWs(txt, c + 1))
        j == SkipWs(txt, r.i)
    IN IF ~k.ok \/ At(txt, c) # 58 THEN PFail
       ELSE IF ~r.ok THEN PFail
       ELSE IF At(txt, j) = 44
            THEN ParseMembers(txt, SkipWs(txt, j + 1), PutMember(acc, k.v.s, r.v))
       ELSE IF At(txt, j) = 125 THEN POk(PutMember(acc, k.v.s, r.v), j + 1)
       ELSE PFail

JsonParse(txt) ==
    LET r == ParseValue(txt, SkipWs(txt, 1))
    IN IF r.ok /\ SkipWs(txt, r.i) = Len(txt) + 1 THEN [ok |-> TRUE, v |-> r.v]
       ELSE [ok |-> FALSE, v |-> JUndefined]


(* ---------- backup entries and the bundle ---------- *)
KeyVersion == <<118, 101, 114, 115, 105, 111, 110>>
KeyBackupCount == <<98, 97, 99, 107, 117, 112, 67, 111, 117, 110, 116>>
KeyBackups == <<98, 97, 99, 107, 117, 112, 115>>
KeyFilename == <<102, 105, 108, 101, 110, 97, 109, 101>>
KeyContent == <<99, 111, 110, 116, 101, 110, 116>>
KeyTimestamp == <<116, 105, 109, 101, 115, 116, 97, 109, 112>>
VersionTag == <<49, 46, 49, 46, 48>>

\* BackupData {filename, content, timestamp}; content is any JSON value.
BackupData(name, content, ts) == [filename |-> name, content |-> content, timestamp |-> ts]

BackupDataToJson(e) ==
    JObj(<<KeyFilename, KeyContent, KeyTimestamp>>,
         <<JStr(e.filename), e.content, JNum(e.timestamp)>>)

\* The argument of restore_backup_files is deserialized entry by entry.
IsBackupDataJson(v) ==
    /\ v.t = "obj"
    /\ GetProp(v, KeyFilename).t = "str"
    /\ GetProp(v, KeyContent).t # "undefined"
    /\ GetProp(v, KeyTimestamp).t = "num"
    /\ GetProp(v, KeyTimestamp).s = <<>>

BackupDataFromJson(v) ==
    BackupData(GetProp(v, KeyFilename).s, GetProp(v, KeyContent), GetProp(v, KeyTimestamp).n)

\* configData of exportConfig.onSubmit
EncryptedConfigData(version, count, backups) ==
    JObj(<<KeyVersion, KeyBackupCount, KeyBackups>>, <<version, count, backups>>)

\* configData whose backups lose their last entry
BuildConfigData_DropsLast(backupsWithContent) ==
    EncryptedConfigData(
        JStr(VersionTag),
        JNum(Len(backupsWithContent)),
        JArr([k \in 1..(Len(backupsWithContent) - 1) |->
                BackupDataToJson(backupsWithContent[k])]))

\* configData whose backupCount is one more than its backups
BuildConfigData_CountsOneMore(backupsWithContent) ==
    EncryptedConfigData(
        JStr(VersionTag),
        JNum(Len(backupsWithContent) + 1),
        JArr([k \in 1..Len(backupsWithContent) |-> BackupDataToJson(backupsWithContent[k])]))

BuildConfigData(backupsWithContent) ==
    EncryptedConfigData(
        JStr(VersionTag),
        JNum(Len(backupsWithContent)),
        JArr([k \in 1..Len(backupsWithContent) |-> BackupDataToJson(backupsWithContent[k])]))

\* the format check without its Array.isArray test
FormatCheckThrows_NoArrayTest(configData) ==
    \/ configData.t = "null"
    \/ ~Truthy(GetProp(configData, KeyVersion))
    \/ ~Truthy(GetProp(configData, KeyBackups))

\* the format check of importConfig.onSubmit; reading a property of null throws
FormatCheckThrows(configData) ==
    \/ configData.t = "null"
    \/ ~Truthy(GetProp(configData, KeyVersion))
    \/ ~Truthy(GetProp(configData, KeyBackups))
    \/ GetProp(configData, KeyBackups).t # "arr"

(* ---------- backend commands ---------- *)
\* encrypt_config_data: XOR with the password bytes, then Base64
EncryptConfigData(jsonData, password) ==
    Base64Encode(XorWithKey(Utf8Encode(jsonData), Utf8Encode(password)))

\* decrypt_config_data: Base64 decoding, XOR, then the bytes read as UTF-8 text
DecryptConfigData(encryptedData, password) ==
    LET raw == Base64Decode(encryptedData)
        txt == Utf8Decode(XorWithKey(raw.bytes, Utf8Encode(password)))
    IN IF raw.ok /\ txt.ok THEN [ok |-> TRUE, text |-> txt.text]
       ELSE [ok |-> FALSE, text |-> <<>>]

\* one entry written into the snapshot store: replaces the file of that name
WriteEntry(st, e) ==
    IF \E i \in 1..Len(st) : st[i].filename = e.filename
    THEN [i \in 1..Len(st) |-> IF st[i].filename = e.filename THEN e ELSE st[i]]
    ELSE Append(st, e)

\* restore_backup_files that gives up at the first entry it cannot write
RECURSIVE RestoreFrom_StopsAtFailure(_, _, _, _)
RestoreFrom_StopsAtFailure(st, entries, failing, k) ==
    IF k > Len(entries) \/ k \in failing THEN st
    ELSE RestoreFrom_StopsAtFailure(WriteEntry(st, entries[k]), entries, failing, k + 1)

\* restore_backup_files: every entry is attempted; the entries at the indices
\* in failing cannot be written and are reported with their filename and the
\* reason.
RECURSIVE RestoreFrom(_, _, _, _)
RestoreFrom(st, entries, failing, k) ==
    IF k > Len(entries) THEN st
    ELSE RestoreFrom(IF k \in failing THEN st ELSE WriteEntry(st, entries[k]),
                     entries, failing, k + 1)

RestoreResult(entries, failing) ==
    LET idx == SelectSeq([k \in 1..Len(entries) |-> k], LAMBDA k : k \in failing)
    IN [restoredCount |-> Len(entries) - Len(idx),
        failed |-> [j \in 1..Len(idx) |->
                      [filename |-> entries[idx[j]].filename, error |-> "writeFailed"]]]

NoResult == [restoredCount |-> 0, failed |-> <<>>]

(* ---------- password policy ---------- *)
\* validatePassword without its upper limit
ValidatePassword_NoMaximum(password) ==
    IF Len(password) < MinPasswordLength THEN [isValid |-> FALSE, message |-> "tooShort"]
    ELSE [isValid |-> TRUE, message |-> ""]

\* validatePassword of both dialogs
ValidatePassword(password) ==
    IF Len(password) < MinPasswordLength THEN [isValid |-> FALSE, message |-> "tooShort"]
    ELSE IF Len(password) > MaxPasswordLength THEN [isValid |-> FALSE, message |-> "tooLong"]
    ELSE [isValid |-> TRUE, message |-> ""]

(* ---------- inputs ---------- *)
Entry(k) ==
    BackupData(<<96 + k>>,
               IF k % 2 = 1 THEN JStr(<<119 + k, 34>>) ELSE JObj(<< <<107>> >>, <<JNum(k)>>),
               1000 + k)

StoreOfSize(n) == [k \in 1..n |-> Entry(k)]

PasswordOf(len, c) == [i \in 1..len |-> c]

GoodPassword == PasswordOf(MinPasswordLength, 112)

Passwords ==
    { PasswordOf(MinPasswordLength - 1, 112), GoodPassword,
      PasswordOf(MinPasswordLength, 113), PasswordOf(MaxPasswordLength, 112),
      PasswordOf(MaxPasswordLength + 1, 112) }

\* files found on the machine besides the ones this program saved: an empty
\* file, a file that is no Base64 text, and files produced with GoodPassword
\* from a text that is no JSON, from JSON null, and from bundles whose
\* backupCount is wrong, whose version is missing, whose backups is no array.
ForeignTexts ==
    << <<>>,
       <<65, 0, 1, 2>>,
       EncryptConfigData(<<123, 34>>, GoodPassword),
       EncryptConfigData(JsonStringify(JNull, JsonIndent), GoodPassword),
       EncryptConfigData(JsonStringify(
           EncryptedConfigData(JStr(VersionTag), JNum(5),
                               JArr(<<BackupDataToJson(Entry(1))>>)), JsonIndent), GoodPassword),
       EncryptConfigData(JsonStringify(
           JObj(<<KeyBackupCount, KeyBackups>>,
                <<JNum(1), JArr(<<BackupDataToJson(Entry(1))>>)>>), JsonIndent), GoodPassword),
       EncryptConfigData(JsonStringify(
           EncryptedConfigData(JStr(VersionTag), JNum(1), JStr(<<120>>)), JsonIndent),
           GoodPassword) >>

\* a file on disk: its text, and where the text came from (written by an
\* export of entries under a password, or foreign), and whether one symbol
\* of it was changed since.
File(text, origin, entries, password, tampered) ==
    [text |-> text, origin |-> origin, entries |-> entries, password |-> password,
     tampered |-> tampered]

ForeignFiles == { File(ForeignTexts[k], "foreign", <<>>, <<>>, FALSE) : k \in 1..Len(ForeignTexts) }

NoFile == File(<<>>, "none", <<>>, <<>>, FALSE)

\* a file produced on another machine with GoodPassword from a bundle of two
\* entries that the store does not hold
BundleOfOthers ==
    File(EncryptConfigData(JsonStringify(
             EncryptedConfigData(JStr(VersionTag), JNum(2),
                                 JArr(<<BackupDataToJson(Entry(MaxEntries + 1)),
                                        BackupDataToJson(Entry(MaxEntries + 2))>>)), JsonIndent),
             GoodPassword),
         "foreign", <<>>, <<>>, FALSE)

(* ---------- state ---------- *)
VARIABLES
    store,              \* the snapshot store of the backend: a sequence of BackupData
    disk,               \* the file written by write_text_file (NoFile before the first export)
    flows,              \* the runs of exportConfig / importConfig, by slot
    passwordDialog,     \* AppContent's passwordDialog state; owner is the run whose onSubmit it holds
    isImporting,
    isExporting,
    isProcessLoading,
    confirmDialogOpen,  \* Toolbar's confirmDialog.isOpen
    loginRuns,          \* calls of the backupAndRestartAntigravity hook in flight
    switchRuns,         \* calls of switchUser / switchToAccount in flight
    login,              \* how the last call of the hook settled, and its toast
    host,               \* the host process: "running" or "stopped"
    live,               \* the live file location: per file, the account whose state it holds (0: no file)
    snapshots,          \* the snapshot repository, by account identifier
    activePointer,      \* the identifier of the account materialized in the live location
    now,                \* the clock: the time the latest run started at
    run,                \* the run of the account-switch coordinator
    versionFiles,       \* the version each of the three project files holds
    bump,               \* the run of scripts/bump-version.sh
    panel,              \* AppUserPanel: its two confirm dialogs and its calls in flight
    tray,               \* SystemTraySwitch: isChanging, its props, its calls of onCheckedChange
    models,             \* useAvailableModels: data, and the fetchData calls in flight
    app                 \* App: isDetecting, the detection call, the polled isRunning

backendVars == <<host, live, snapshots, activePointer, now, run>>

\* the state of the release script and of the components around the store
otherVars == <<versionFiles, bump, panel, tray, models, app>>

coordVars == <<login, backendVars, otherVars>>

vars == <<store, disk, flows, passwordDialog, isImporting, isExporting, isProcessLoading,
          confirmDialogOpen, loginRuns, switchRuns, login, host, live, snapshots,
          activePointer, now, run, versionFiles, bump, panel,
          tray, models, app>>

Flows == 1..MaxFlows

Shown(msg, isError, restored, failed) ==
    [msg |-> msg, isError |-> isError, restored |-> restored, failed |-> failed]

NothingShown == Shown("", FALSE, 0, 0)

\* showStatus(message, isError): the status line shows the message with its flag
showStatus(flow, msg, isError) == [flow EXCEPT !.shown = Shown(msg, isError, 0, 0)]

IdleFlow ==
    [kind |-> "none", pc |-> "idle", calledWhileExporting |-> FALSE,
     entries |-> <<>>, text |-> <<>>, password |-> <<>>, configData |-> JUndefined,
     thrownAt |-> "", result |-> NoResult, file |-> NoFile, calls |-> <<>>,
     askedPassword |-> FALSE, shown |-> NothingShown, steps |-> <<>>, failing |-> {},
     storeBefore |-> <<>>]

\* a run that waits in the password dialog lives only as the dialog's onSubmit closure
HeldByDialog(f) == passwordDialog.isOpen /\ passwordDialog.owner = f

SlotFree(f) ==
    \/ flows[f].pc \in {"idle", "done"}
    \/ flows[f].pc = "password" /\ ~HeldByDialog(f)

ClosedDialog == [isOpen |-> FALSE, owner |-> 0, requireConfirmation |-> FALSE, message |-> ""]

\* showPasswordDialog that leaves a pending request in place
showPasswordDialog_KeepsPending(f, requireConfirmation) ==
    IF passwordDialog.isOpen
    THEN passwordDialog
    ELSE [isOpen |-> TRUE, owner |-> f, requireConfirmation |-> requireConfirmation,
          message |-> ""]

\* showPasswordDialog(config): replaces the whole dialog state
showPasswordDialog(f, requireConfirmation) ==
    [isOpen |-> TRUE, owner |-> f, requireConfirmation |-> requireConfirmation, message |-> ""]

\* closePasswordDialog(): only isOpen changes
closePasswordDialog == [passwordDialog EXCEPT !.isOpen = FALSE]

\* Toolbar.isAnyLoading
isAnyLoading == isProcessLoading \/ isImporting \/ isExporting

Invoke(flow, command) == [flow EXCEPT !.calls = Append(@, command)]

\* a step of the run has completed
Completed(flow, step) == [flow EXCEPT !.steps = Append(@, step)]

Accounts == 1..MaxAccounts

LiveFiles == 1..MaxLiveFiles

\* the hook has not been called / is awaited
NoLogin == [promise |-> "none", toast |-> "", thrownAt |-> ""]

PendingLogin == [promise |-> "pending", toast |-> "", thrownAt |-> ""]

\* the files of the live location all hold the state of account a; 0: none
FilesOf(a) == [file \in LiveFiles |-> a]

NoSnapshot == [exists |-> FALSE, files |-> FilesOf(0), lastSwitchedAt |-> 0]

SnapshotOf(a) == [exists |-> TRUE, files |-> FilesOf(a), lastSwitchedAt |-> 0]

\* the coordinator is Idle
IdleRun ==
    [kind |-> "none", pc |-> "idle", target |-> 0, error |-> "", events |-> <<>>,
     failed |-> {}, degraded |-> FALSE, relaunchAttempted |-> FALSE,
     liveBefore |-> FilesOf(0), pointerBefore |-> 0, switchedBefore |-> 0]

(* ---------- scripts/bump-version.sh: versions and arithmetic ---------- *)
\* A version is the sequence of its dot-separated parts; a part is its text,
\* a sequence of decimal digits.
DigitChoices == {0, 8}

RECURSIVE TextsOfLength(_)
TextsOfLength(n) ==
    IF n = 0 THEN {<<>>}
    ELSE { Append(t, d) : t \in TextsOfLength(n - 1), d \in DigitChoices }

\* the parts a version given on the command line is made of
Components == UNION { TextsOfLength(n) : n \in 1..MaxDigits }

InitialVersion == <<(<<1>>), (<<2>>), (<<3>>)>>

\* the value of a numeral in a base
RECURSIVE NumeralValue(_, _)
NumeralValue(digits, base) ==
    IF digits = <<>> THEN 0
    ELSE NumeralValue(SubSeq(digits, 1, Len(digits) - 1), base) * base + digits[Len(digits)]

RECURSIVE DecimalText(_)
DecimalText(k) == IF k < 10 THEN <<k>> ELSE Append(DecimalText(k \div 10), k % 10)

\* bash arithmetic reads a constant with a leading 0 as octal
BashBase(text) == IF Len(text) > 1 /\ text[1] = 0 THEN 8 ELSE 10

\* ((x++)): the variable's text is evaluated and the value plus one is
\* assigned; a digit too great for the base is an error that leaves the
\* variable as it is (errexit is off inside the command substitution, the
\* function goes on). Values stay far below 2^63, where the arithmetic wraps.
PostIncrement(text) ==
    IF \A i \in 1..Len(text) : text[i] < BashBase(text)
    THEN DecimalText(NumeralValue(text, BashBase(text)) + 1)
    ELSE text

\* increment_version: parse_version splits at the dots, read assigns
\* major, minor, patch (the current version has three parts)
increment_version(current_version, increment_type) ==
    LET major == current_version[1]
        minor == current_version[2]
        patch == current_version[3]
    IN CASE increment_type = "major" ->
                [status |-> 0, out |-> <<PostIncrement(major), (<<0>>), (<<0>>)>>]
         [] increment_type = "minor" ->
                [status |-> 0, out |-> <<major, PostIncrement(minor), (<<0>>)>>]
         [] increment_type = "patch" ->
                [status |-> 0, out |-> <<major, minor, PostIncrement(patch)>>]
         [] OTHER -> [status |-> 1, out |-> <<>>]

\* validate_version: ^[0-9]+\.[0-9]+\.[0-9]+$
validate_version(version) ==
    /\ Len(version) = 3
    /\ \A i \in 1..Len(version) : Len(version[i]) > 0

\* the argument of the script: a word, or a dotted text of digits
Argument(word, parts) == [word |-> word, parts |-> parts]

Arguments ==
    { Argument(w, <<>>) : w \in {"patch", "minor", "major", "-h", "--help", "none", "build"} }
        \cup { Argument("version", <<a, b, c>>) : a, b, c \in Components }
        \cup { Argument("version", <<a, b>>) : a, b \in {<<1>>} }

FilesAt(version) == [package |-> version, tauri |-> version, cargo |-> version]

NoBump ==
    [pc |-> "idle", runs |-> 0, arg |-> Argument("none", <<>>), current |-> <<>>,
     new |-> <<>>, status |-> 0, filesBefore |-> FilesAt(<<>>)]

(* ---------- AppUserPanel: state ---------- *)
\* backupToDelete is a name or null; selected is the name last given to
\* handleDeleteBackup, toast the last toast shown
Null == <<>>

\* useState(false), useState(false), useState(null); no call in flight
ClosedPanel ==
    [isClearDialogOpen |-> FALSE, deleteDialogOpen |-> FALSE, backupToDelete |-> Null,
     calls |-> <<>>, selected |-> Null, toast |-> ""]

\* antigravityAccount.users: the names of the snapshots in the store
Users == { store[i].filename : i \in 1..Len(store) }

(* ---------- SystemTraySwitch and useAvailableModels: state ---------- *)
\* useState(false); checked and disabled are props; inFlight counts the
\* calls of onCheckedChange that have not settled, started all calls made
IdleSwitch ==
    [isChanging |-> FALSE, checked |-> FALSE, disabled |-> FALSE, inFlight |-> 0,
     started |-> 0]

\* what fetchAvailableModels can answer
Responses == {1, 2}

\* a key that data does not hold
NoResponse == 0

FetchSlots == 1..MaxFetches

IdleFetch == [pc |-> "idle", email |-> 0, response |-> NoResponse, overlapped |-> FALSE]

\* data: {}
NoModels ==
    [data |-> [email \in Accounts |-> NoResponse], fetches |-> [s \in FetchSlots |-> IdleFetch]]

(* ---------- App: state ---------- *)
\* useState(true) for isDetecting; no effect has run; the cached isRunning of
\* useAntigravityIsRunning before its first check
StartingApp ==
    [isDetecting |-> TRUE, detect |-> "none", autoCheck |-> FALSE, isRunning |-> FALSE]

InitWith(sizes) ==
    /\ store \in { StoreOfSize(n) : n \in sizes }
    /\ disk = NoFile
    /\ flows = [f \in Flows |-> IdleFlow]
    /\ passwordDialog = ClosedDialog
    /\ isImporting = FALSE
    /\ isExporting = FALSE
    /\ isProcessLoading = FALSE
    /\ confirmDialogOpen = FALSE
    /\ loginRuns = 0
    /\ switchRuns = 0
    /\ login = NoLogin
    /\ host = "running"
    /\ live = FilesOf(1)
    /\ snapshots = [a \in Accounts |-> IF a = 1 THEN NoSnapshot ELSE SnapshotOf(a)]
    /\ activePointer = 1
    /\ now = 0
    /\ run = IdleRun
    /\ versionFiles = FilesAt(InitialVersion)
    /\ bump = NoBump
    /\ panel = ClosedPanel
    /\ tray = IdleSwitch
    /\ models = NoModels
    /\ app = StartingApp

Init == InitWith(0..MaxEntries)

(* ---------- exportConfig ---------- *)
\* exportConfig() that raises its flag when it is called
exportConfig_FlagAtCall(f) ==
    /\ SlotFree(f)
    /\ flows' = [flows EXCEPT ![f] =
            Invoke(showStatus([IdleFlow EXCEPT !.kind = "export", !.pc = "collecting",
                                               !.calledWhileExporting = isExporting],
                              "collecting", FALSE),
                   "collect_backup_contents")]
    /\ isExporting' = TRUE
    /\ UNCHANGED <<store, disk, passwordDialog, isImporting, isProcessLoading,
                   confirmDialogOpen, loginRuns, switchRuns>>
    /\ UNCHANGED coordVars

\* exportConfig(): status, then collect_backup_contents is invoked
exportConfig(f) ==
    /\ SlotFree(f)
    /\ flows' = [flows EXCEPT ![f] =
            Invoke(showStatus([IdleFlow EXCEPT !.kind = "export", !.pc = "collecting",
                                               !.calledWhileExporting = isExporting],
                              "collecting", FALSE),
                   "collect_backup_contents")]
    /\ UNCHANGED <<store, disk, passwordDialog, isImporting, isExporting, isProcessLoading,
                   confirmDialogOpen, loginRuns, switchRuns>>
    /\ UNCHANGED coordVars

\* collect_backup_contents returns, without the test for an empty result
CollectReturns_NoEmptyTest(f, rejected) ==
    /\ flows[f].pc = "collecting"
    /\ IF rejected
       THEN /\ flows' = [flows EXCEPT ![f] =
                    showStatus([@ EXCEPT !.pc = "done", !.thrownAt = "collect"],
                               "collectFailed", TRUE)]
            /\ UNCHANGED passwordDialog
       ELSE /\ flows' = [flows EXCEPT ![f] =
                    Completed([@ EXCEPT !.pc = "password", !.entries = store,
                                         !.askedPassword = TRUE], "collect")]
            /\ passwordDialog' = showPasswordDialog(f, TRUE)
    /\ UNCHANGED <<store, disk, isImporting, isExporting, isProcessLoading,
                   confirmDialogOpen, loginRuns, switchRuns>>
    /\ UNCHANGED coordVars

\* collect_backup_contents returns (or rejects); empty: no-data status and return;
\* otherwise the password dialog is shown with this run's onSubmit
CollectReturns(f, rejected) ==
    /\ flows[f].pc = "collecting"
    /\ IF rejected
       THEN /\ flows' = [flows EXCEPT ![f] =
                    showStatus([@ EXCEPT !.pc = "done", !.thrownAt = "collect"],
                               "collectFailed", TRUE)]
            /\ UNCHANGED passwordDialog
       ELSE IF Len(store) = 0
       THEN /\ flows' = [flows EXCEPT ![f] =
                    showStatus([@ EXCEPT !.pc = "done"], "noData", TRUE)]
            /\ UNCHANGED passwordDialog
       ELSE /\ flows' = [flows EXCEPT ![f] =
                    Completed([@ EXCEPT !.pc = "password", !.entries = store,
                                         !.askedPassword = TRUE], "collect")]
            /\ passwordDialog' = showPasswordDialog(f, TRUE)
    /\ UNCHANGED <<store, disk, isImporting, isExporting, isProcessLoading,
                   confirmDialogOpen, loginRuns, switchRuns>>
    /\ UNCHANGED coordVars

\* exportConfig.onSubmit that reads the store again
ExportOnSubmit_ReadsStoreAgain(f, password) ==
    /\ passwordDialog' = closePasswordDialog
    /\ isExporting' = TRUE
    /\ LET configData == BuildConfigData(store)
       IN flows' = [flows EXCEPT ![f] =
            Invoke(Completed(Completed(
                       showStatus([@ EXCEPT !.pc = "encrypting", !.password = password,
                                            !.configData = configData,
                                            !.text = JsonStringify(configData, JsonIndent)],
                                  "generating", FALSE),
                       "password"), "serialize"),
                   "encrypt_config_data")]
    /\ UNCHANGED <<store, disk, isImporting, isProcessLoading, confirmDialogOpen,
                   loginRuns, switchRuns>>

\* exportConfig.onSubmit(password) up to the call of encrypt_config_data
ExportOnSubmit(f, password) ==
    /\ passwordDialog' = closePasswordDialog
    /\ isExporting' = TRUE
    /\ LET configData == BuildConfigData(flows[f].entries)
       IN flows' = [flows EXCEPT ![f] =
            Invoke(Completed(Completed(
                       showStatus([@ EXCEPT !.pc = "encrypting", !.password = password,
                                            !.configData = configData,
                                            !.text = JsonStringify(configData, JsonIndent)],
                                  "generating", FALSE),
                       "password"), "serialize"),
                   "encrypt_config_data")]
    /\ UNCHANGED <<store, disk, isImporting, isProcessLoading, confirmDialogOpen,
                   loginRuns, switchRuns>>

\* the catch of exportConfig.onSubmit without the finally
ExportCatch_NoFinally(f, at) ==
    /\ flows' = [flows EXCEPT ![f] =
            showStatus([@ EXCEPT !.pc = "done", !.thrownAt = at], "exportFailed", TRUE)]
    /\ UNCHANGED isExporting

\* catch and finally of exportConfig.onSubmit
ExportCatch(f, at) ==
    /\ flows' = [flows EXCEPT ![f] =
            showStatus([@ EXCEPT !.pc = "done", !.thrownAt = at], "exportFailed", TRUE)]
    /\ isExporting' = FALSE

\* encrypt_config_data returns and the file is written without asking where
EncryptReturns_WritesAtOnce(f, rejected) ==
    /\ flows[f].pc = "encrypting"
    /\ IF rejected
       THEN ExportCatch(f, "encrypt")
       ELSE /\ flows' = [flows EXCEPT ![f] =
                    Invoke(Completed([@ EXCEPT !.pc = "writing",
                               !.text = EncryptConfigData(flows[f].text, flows[f].password)],
                               "encrypt"),
                           "write_text_file")]
            /\ UNCHANGED isExporting
    /\ UNCHANGED <<store, disk, passwordDialog, isImporting, isProcessLoading,
                   confirmDialogOpen, loginRuns, switchRuns>>
    /\ UNCHANGED coordVars

\* encrypt_config_data returns (or rejects); then the save dialog is opened
EncryptReturns(f, rejected) ==
    /\ flows[f].pc = "encrypting"
    /\ IF rejected
       THEN ExportCatch(f, "encrypt")
       ELSE /\ flows' = [flows EXCEPT ![f] =
                    Invoke(Completed([@ EXCEPT !.pc = "saving",
                               !.text = EncryptConfigData(flows[f].text, flows[f].password)],
                               "encrypt"),
                           "save")]
            /\ UNCHANGED isExporting
    /\ UNCHANGED <<store, disk, passwordDialog, isImporting, isProcessLoading,
                   confirmDialogOpen, loginRuns, switchRuns>>
    /\ UNCHANGED coordVars

\* save() returns a path, or no path, or rejects
SaveReturns(f, answer) ==
    /\ flows[f].pc = "saving"
    /\ CASE answer = "rejected" -> ExportCatch(f, "save")
         [] answer = "none" ->
              /\ flows' = [flows EXCEPT ![f] =
                      showStatus([@ EXCEPT !.pc = "done"], "noSavePath", TRUE)]
              /\ isExporting' = FALSE
         [] answer = "path" ->
              /\ flows' = [flows EXCEPT ![f] =
                      Invoke(Completed([@ EXCEPT !.pc = "writing"], "save"),
                             "write_text_file")]
              /\ UNCHANGED isExporting
    /\ UNCHANGED <<store, disk, passwordDialog, isImporting, isProcessLoading,
                   confirmDialogOpen, loginRuns, switchRuns>>
    /\ UNCHANGED coordVars

\* write_text_file returns (or rejects)
WriteReturns(f, rejected) ==
    /\ flows[f].pc = "writing"
    /\ IF rejected
       THEN ExportCatch(f, "write") /\ UNCHANGED disk
       ELSE /\ disk' = File(flows[f].text, "export", flows[f].entries, flows[f].password, FALSE)
            /\ flows' = [flows EXCEPT ![f] =
                    Completed(showStatus([@ EXCEPT !.pc = "done"], "saved", FALSE), "write")]
            /\ isExporting' = FALSE
    /\ UNCHANGED <<store, passwordDialog, isImporting, isProcessLoading,
                   confirmDialogOpen, loginRuns, switchRuns>>
    /\ UNCHANGED coordVars

(* ---------- importConfig ---------- *)
\* importConfig(): the open dialog is shown
importConfig(f) ==
    /\ SlotFree(f)
    /\ flows' = [flows EXCEPT ![f] =
            Invoke([IdleFlow EXCEPT !.kind = "import", !.pc = "selecting"], "open")]
    /\ UNCHANGED <<store, disk, passwordDialog, isImporting, isExporting, isProcessLoading,
                   confirmDialogOpen, loginRuns, switchRuns>>
    /\ UNCHANGED coordVars

\* catch of importConfig around the file operations
ImportFileCatch(f, at) ==
    flows' = [flows EXCEPT ![f] =
        showStatus([@ EXCEPT !.pc = "done", !.thrownAt = at], "fileOpFailed", TRUE)]

\* open() returns a path, or no selection, or rejects
OpenReturns(f, answer) ==
    /\ flows[f].pc = "selecting"
    /\ CASE answer = "rejected" -> ImportFileCatch(f, "open")
         [] answer = "none" ->
              flows' = [flows EXCEPT ![f] = showStatus([@ EXCEPT !.pc = "done"], "noFile", TRUE)]
         [] answer = "path" ->
              flows' = [flows EXCEPT ![f] = Invoke([@ EXCEPT !.pc = "reading"], "readFile")]
    /\ UNCHANGED <<store, disk, passwordDialog, isImporting, isExporting, isProcessLoading,
                   confirmDialogOpen, loginRuns, switchRuns>>
    /\ UNCHANGED coordVars

\* readFile returns, without the test for empty content
ReadReturns_NoEmptyTest(f, file, rejected) ==
    /\ flows[f].pc = "reading"
    /\ IF rejected
       THEN ImportFileCatch(f, "readFile") /\ UNCHANGED passwordDialog
       ELSE /\ flows' = [flows EXCEPT ![f] =
                    Completed([@ EXCEPT !.pc = "password", !.file = file, !.text = file.text,
                                         !.askedPassword = TRUE], "read")]
            /\ passwordDialog' = showPasswordDialog(f, FALSE)
    /\ UNCHANGED <<store, disk, isImporting, isExporting, isProcessLoading,
                   confirmDialogOpen, loginRuns, switchRuns>>
    /\ UNCHANGED coordVars

\* readFile returns the content of the selected file (or rejects); empty:
\* status and return; otherwise the password dialog is shown
ReadReturns(f, file, rejected) ==
    /\ flows[f].pc = "reading"
    /\ IF rejected
       THEN ImportFileCatch(f, "readFile") /\ UNCHANGED passwordDialog
       ELSE IF Len(file.text) = 0
       THEN /\ flows' = [flows EXCEPT ![f] =
                    Completed(showStatus([@ EXCEPT !.pc = "done", !.file = file],
                                         "emptyFile", TRUE), "read")]
            /\ UNCHANGED passwordDialog
       ELSE /\ flows' = [flows EXCEPT ![f] =
                    Completed([@ EXCEPT !.pc = "password", !.file = file, !.text = file.text,
                                         !.askedPassword = TRUE], "read")]
            /\ passwordDialog' = showPasswordDialog(f, FALSE)
    /\ UNCHANGED <<store, disk, isImporting, isExporting, isProcessLoading,
                   confirmDialogOpen, loginRuns, switchRuns>>
    /\ UNCHANGED coordVars

\* importConfig.onSubmit(password) that leaves the password dialog open
ImportOnSubmit_KeepsDialogOpen(f, password) ==
    /\ isImporting' = TRUE
    /\ flows' = [flows EXCEPT ![f] =
            Invoke(showStatus([@ EXCEPT !.pc = "decrypting", !.password = password],
                              "decrypting", FALSE),
                   "decrypt_config_data")]
    /\ UNCHANGED <<store, disk, passwordDialog, isExporting, isProcessLoading,
                   confirmDialogOpen, loginRuns, switchRuns>>

\* importConfig.onSubmit(password) up to the call of decrypt_config_data
ImportOnSubmit(f, password) ==
    /\ passwordDialog' = closePasswordDialog
    /\ isImporting' = TRUE
    /\ flows' = [flows EXCEPT ![f] =
            Invoke(showStatus([@ EXCEPT !.pc = "decrypting", !.password = password],
                              "decrypting", FALSE),
                   "decrypt_config_data")]
    /\ UNCHANGED <<store, disk, isExporting, isProcessLoading, confirmDialogOpen,
                   loginRuns, switchRuns>>

\* catch and finally of importConfig.onSubmit
ImportCatch(f, at) ==
    /\ flows' = [flows EXCEPT ![f] =
            showStatus([@ EXCEPT !.pc = "done", !.thrownAt = at], "decryptFailed", TRUE)]
    /\ isImporting' = FALSE

\* decrypt_config_data returns (or rejects); JSON.parse; the format check;
\* then restore_backup_files is invoked with configData.backups
DecryptReturns(f, rejected) ==
    /\ flows[f].pc = "decrypting"
    /\ LET decrypted == DecryptConfigData(flows[f].text, flows[f].password)
           parsed == JsonParse(decrypted.text)
       IN IF rejected THEN ImportCatch(f, "backend")
          ELSE IF ~decrypted.ok THEN ImportCatch(f, "decrypt")
          ELSE IF ~parsed.ok THEN ImportCatch(f, "parse")
          ELSE IF FormatCheckThrows(parsed.v) THEN ImportCatch(f, "format")
          ELSE /\ flows' = [flows EXCEPT ![f] =
                       Invoke(showStatus([@ EXCEPT !.pc = "restoring", !.configData = parsed.v],
                                         "restoring", FALSE),
                              "restore_backup_files")]
               /\ UNCHANGED isImporting
    /\ UNCHANGED <<store, disk, passwordDialog, isExporting, isProcessLoading,
                   confirmDialogOpen, loginRuns, switchRuns>>
    /\ UNCHANGED coordVars

\* a result with failed entries shown as an error
RestoreStatus_Escalates(result) ==
    IF Len(result.failed) > 0
    THEN Shown("decryptFailed", TRUE, 0, 0)
    ELSE Shown("imported", FALSE, result.restoredCount, 0)

\* the status shown for the result of restore_backup_files
RestoreStatus(result) ==
    IF Len(result.failed) > 0
    THEN Shown("importedPartly", FALSE, result.restoredCount, Len(result.failed))
    ELSE Shown("imported", FALSE, result.restoredCount, 0)

\* restore_backup_files returns its result (or rejects); the result is reported
RestoreReturns(f, rejected, failing) ==
    /\ flows[f].pc = "restoring"
    /\ LET backups == GetProp(flows[f].configData, KeyBackups).kids
           entries == [k \in 1..Len(backups) |-> BackupDataFromJson(backups[k])]
           result == RestoreResult(entries, failing)
       IN IF rejected \/ \E k \in 1..Len(backups) : ~IsBackupDataJson(backups[k])
          THEN failing = {} /\ ImportCatch(f, "restore") /\ UNCHANGED store
          ELSE /\ failing \subseteq 1..Len(backups)
               /\ store' = RestoreFrom(store, entries, failing, 1)
               /\ flows' = [flows EXCEPT ![f] =
                       [@ EXCEPT !.pc = "done", !.result = result, !.failing = failing,
                                 !.storeBefore = store,
                                 !.shown = RestoreStatus(result)]]
               /\ isImporting' = FALSE
    /\ UNCHANGED <<disk, passwordDialog, isExporting, isProcessLoading,
                   confirmDialogOpen, loginRuns, switchRuns>>
    /\ UNCHANGED coordVars

(* ---------- the password dialog ---------- *)
\* the dialog's submit: the validator of the request, the confirmation when
\* required, then the onSubmit of the request
PasswordDialogSubmit(password, confirmed) ==
    /\ passwordDialog.isOpen
    /\ LET f == passwordDialog.owner
           v == ValidatePassword(password)
       IN IF ~v.isValid
          THEN /\ passwordDialog' = [passwordDialog EXCEPT !.message = v.message]
               /\ UNCHANGED <<store, disk, flows, isImporting, isExporting, isProcessLoading,
                              confirmDialogOpen, loginRuns, switchRuns>>
          ELSE IF passwordDialog.requireConfirmation /\ ~confirmed
          THEN /\ passwordDialog' = [passwordDialog EXCEPT !.message = "mismatch"]
               /\ UNCHANGED <<store, disk, flows, isImporting, isExporting, isProcessLoading,
                              confirmDialogOpen, loginRuns, switchRuns>>
          ELSE IF flows[f].kind = "export" THEN ExportOnSubmit(f, password)
          ELSE ImportOnSubmit(f, password)
    /\ UNCHANGED coordVars

\* handlePasswordDialogCancel: the dialog is closed and "cancelled" is shown as an error
handlePasswordDialogCancel ==
    /\ passwordDialog.isOpen
    /\ passwordDialog' = closePasswordDialog
    /\ flows' = [flows EXCEPT ![passwordDialog.owner] =
            showStatus([@ EXCEPT !.pc = "done"], "cancelled", TRUE)]
    /\ UNCHANGED <<store, disk, isImporting, isExporting, isProcessLoading,
                   confirmDialogOpen, loginRuns, switchRuns>>
    /\ UNCHANGED coordVars

\* onOpenChange(false): the dialog is closed, nothing is shown
PasswordDialogOnOpenChange ==
    /\ passwordDialog.isOpen
    /\ passwordDialog' = closePasswordDialog
    /\ flows' = [flows EXCEPT ![passwordDialog.owner] = [@ EXCEPT !.pc = "done"]]
    /\ UNCHANGED <<store, disk, isImporting, isExporting, isProcessLoading,
                   confirmDialogOpen, loginRuns, switchRuns>>
    /\ UNCHANGED coordVars

(* ---------- the file on disk ---------- *)
\* one symbol of the exported file is changed
TamperFile(pos, sym) ==
    /\ disk.origin = "export"
    /\ ~disk.tampered
    /\ pos \in 1..Len(disk.text)
    /\ disk.text[pos] # sym
    /\ disk' = [disk EXCEPT !.text[pos] = sym, !.tampered = TRUE]
    /\ UNCHANGED <<store, flows, passwordDialog, isImporting, isExporting, isProcessLoading,
                   confirmDialogOpen, loginRuns, switchRuns>>
    /\ UNCHANGED coordVars

FilesOnDisk(foreign) == foreign \cup (IF disk.origin = "none" THEN {} ELSE {disk})

(* ---------- login new account, switch account ---------- *)
\* the hook backupAndRestartAntigravity up to the call of the service, which
\* invokes backup_and_restart_antigravity
backupAndRestartAntigravity ==
    /\ loginRuns < MaxRuns
    /\ isProcessLoading' = TRUE
    /\ loginRuns' = loginRuns + 1
    /\ login' = PendingLogin
    /\ UNCHANGED <<store, disk, flows, passwordDialog, isImporting, isExporting,
                   confirmDialogOpen, switchRuns>>
    /\ UNCHANGED <<backendVars, otherVars>>

\* the response of the backend is consumed: the coordinator is Idle again
Answered(kind) == IF run.kind = kind /\ run.pc = "finished" THEN IdleRun ELSE run

\* the hook when the service throws, without its catch
BackupAndRestartReturns_NoCatch(rejected) ==
    /\ loginRuns > 0
    /\ isProcessLoading' = FALSE
    /\ loginRuns' = loginRuns - 1
    /\ login' = IF rejected
                THEN [promise |-> "rejected", toast |-> "",
                      thrownAt |-> "backup_and_restart_antigravity"]
                ELSE [promise |-> "resolved", toast |-> "success", thrownAt |-> ""]
    /\ run' = Answered("login")
    /\ UNCHANGED <<store, disk, flows, passwordDialog, isImporting, isExporting,
                   confirmDialogOpen, switchRuns>>
    /\ UNCHANGED <<host, live, snapshots, activePointer, now, otherVars>>

\* backup_and_restart_antigravity returns (the service toasts the result) or
\* rejects (the service rethrows, the hook catches and toasts the error);
\* finally of the hook
BackupAndRestartReturns(rejected) ==
    /\ loginRuns > 0
    /\ isProcessLoading' = FALSE
    /\ loginRuns' = loginRuns - 1
    /\ login' = IF rejected
                THEN [promise |-> "resolved", toast |-> "error",
                      thrownAt |-> "backup_and_restart_antigravity"]
                ELSE [promise |-> "resolved", toast |-> "success", thrownAt |-> ""]
    /\ run' = Answered("login")
    /\ UNCHANGED <<store, disk, flows, passwordDialog, isImporting, isExporting,
                   confirmDialogOpen, switchRuns>>
    /\ UNCHANGED <<host, live, snapshots, activePointer, now, otherVars>>

\* AppUserPanel.handleSwitchAccount and the tray-switch-account listener up to
\* the call of switchUser / switchToAccount
handleSwitchAccount ==
    /\ switchRuns < MaxRuns
    /\ switchRuns' = switchRuns + 1
    /\ UNCHANGED <<store, disk, flows, passwordDialog, isImporting, isExporting,
                   isProcessLoading, confirmDialogOpen, loginRuns>>
    /\ UNCHANGED coordVars

TraySwitchAccount ==
    /\ switchRuns < MaxRuns
    /\ switchRuns' = switchRuns + 1
    /\ UNCHANGED <<store, disk, flows, passwordDialog, isImporting, isExporting,
                   isProcessLoading, confirmDialogOpen, loginRuns>>
    /\ UNCHANGED coordVars

\* the switch returns or throws
SwitchReturns ==
    /\ switchRuns > 0
    /\ switchRuns' = switchRuns - 1
    /\ run' = Answered("switch")
    /\ UNCHANGED <<store, disk, flows, passwordDialog, isImporting, isExporting,
                   isProcessLoading, confirmDialogOpen, loginRuns>>
    /\ UNCHANGED <<login, host, live, snapshots, activePointer, now, otherVars>>

(* ---------- the account-switch coordinator of the backend ---------- *)
\* what the steps of the coordinator leave alone
FrontendUnchanged ==
    UNCHANGED <<store, disk, flows, passwordDialog, isImporting, isExporting,
                isProcessLoading, confirmDialogOpen, loginRuns, switchRuns, login,
                otherVars>>

Happened(event) == [run EXCEPT !.events = Append(@, event)]

\* a run starts from Idle only
StartedRun(kind, target) ==
    [IdleRun EXCEPT !.kind = kind, !.pc = "stopping", !.target = target,
                    !.liveBefore = live, !.pointerBefore = activePointer,
                    !.switchedBefore = IF target = 0 THEN 0
                                       ELSE snapshots[target].lastSwitchedAt]

\* loginNewAccount(): backup_and_restart_antigravity is taken up; stop intent
loginNewAccount ==
    /\ loginRuns > 0
    /\ run.pc = "idle"
    /\ now < MaxClock
    /\ now' = now + 1
    /\ run' = StartedRun("login", 0)
    /\ UNCHANGED <<host, live, snapshots, activePointer>>
    /\ FrontendUnchanged

\* switchTo(identifier): the snapshot is looked up
switchTo(identifier) ==
    /\ switchRuns > 0
    /\ run.pc = "idle"
    /\ now < MaxClock
    /\ now' = now + 1
    /\ run' = IF snapshots[identifier].exists
              THEN StartedRun("switch", identifier)
              ELSE [StartedRun("switch", identifier) EXCEPT
                        !.pc = "finished", !.error = "NotFoundError"]
    /\ UNCHANGED <<host, live, snapshots, activePointer>>
    /\ FrontendUnchanged

\* waitUntilStopped that goes on after a timeout
WaitUntilStopped_IgnoresTimeout(outcome) ==
    /\ run.pc = "stopping"
    /\ outcome \in {"stopped", "timeout", "failed"}
    /\ host = "stopped" => outcome = "stopped"
    /\ IF outcome = "failed"
       THEN /\ run' = [run EXCEPT !.pc = "finished", !.error = "IOError"]
            /\ UNCHANGED host
       ELSE /\ host' = "stopped"
            /\ run' = [Happened("stop") EXCEPT
                            !.pc = IF run.kind = "login" THEN "snapshotting" ELSE "restoring",
                            !.error = IF outcome = "timeout" THEN "TimeoutError" ELSE ""]
    /\ UNCHANGED <<live, snapshots, activePointer, now>>
    /\ FrontendUnchanged

\* stop the host and waitUntilStopped(timeout): stopped, or not stopped within
\* the timeout, or the process control fails; the last two abort the run
WaitUntilStopped(outcome) ==
    /\ run.pc = "stopping"
    /\ outcome \in {"stopped", "timeout", "failed"}
    /\ host = "stopped" => outcome = "stopped"
    /\ CASE outcome = "stopped" ->
              /\ host' = "stopped"
              /\ run' = [Happened("stop") EXCEPT
                            !.pc = IF run.kind = "login" THEN "snapshotting" ELSE "restoring"]
         [] outcome = "timeout" ->
              /\ run' = [run EXCEPT !.pc = "finished", !.error = "TimeoutError"]
              /\ UNCHANGED host
         [] outcome = "failed" ->
              /\ run' = [run EXCEPT !.pc = "finished", !.error = "IOError"]
              /\ UNCHANGED host
    /\ UNCHANGED <<live, snapshots, activePointer, now>>
    /\ FrontendUnchanged

\* the snapshot step that goes on to clear after a failure
SnapshotLive_ContinuesOnFailure(ok) ==
    /\ run.pc = "snapshotting"
    /\ IF ok
       THEN /\ snapshots' = [snapshots EXCEPT ![activePointer] =
                    [exists |-> TRUE, files |-> live, lastSwitchedAt |-> @.lastSwitchedAt]]
            /\ run' = [Happened("snapshot") EXCEPT !.pc = "clearing"]
       ELSE /\ run' = [run EXCEPT !.pc = "clearing", !.error = "IOError"]
            /\ UNCHANGED snapshots
    /\ UNCHANGED <<host, live, activePointer, now>>
    /\ FrontendUnchanged

\* loginNewAccount step 3: the live files are captured as the snapshot of the
\* active account; on failure the run goes to the relaunch
SnapshotLive(ok) ==
    /\ run.pc = "snapshotting"
    /\ IF ok
       THEN /\ snapshots' = [snapshots EXCEPT ![activePointer] =
                    [exists |-> TRUE, files |-> live, lastSwitchedAt |-> @.lastSwitchedAt]]
            /\ run' = [Happened("snapshot") EXCEPT !.pc = "clearing"]
       ELSE /\ run' = [run EXCEPT !.pc = "relaunching", !.error = "IOError"]
            /\ UNCHANGED snapshots
    /\ UNCHANGED <<host, live, activePointer, now>>
    /\ FrontendUnchanged

\* the clear step that ends the run when it fails
ClearLive_AbortsOnFailure(cleared) ==
    /\ run.pc = "clearing"
    /\ cleared \subseteq LiveFiles
    /\ live' = [file \in LiveFiles |-> IF file \in cleared THEN 0 ELSE live[file]]
    /\ run' = IF cleared = LiveFiles
              THEN [Happened("clear") EXCEPT !.pc = "relaunching"]
              ELSE [(IF cleared = {} THEN run ELSE Happened("clear")) EXCEPT
                        !.pc = "finished", !.error = "IOError"]
    /\ UNCHANGED <<host, snapshots, activePointer, now>>
    /\ FrontendUnchanged

\* loginNewAccount step 4: the live location is cleared; a failure leaves
\* some files; the run goes to the relaunch either way
ClearLive(cleared) ==
    /\ run.pc = "clearing"
    /\ cleared \subseteq LiveFiles
    /\ live' = [file \in LiveFiles |-> IF file \in cleared THEN 0 ELSE live[file]]
    /\ run' = IF cleared = LiveFiles
              THEN [Happened("clear") EXCEPT !.pc = "relaunching"]
              ELSE [(IF cleared = {} THEN run ELSE Happened("clear")) EXCEPT
                        !.pc = "relaunching", !.error = "IOError"]
    /\ UNCHANGED <<host, snapshots, activePointer, now>>
    /\ FrontendUnchanged

\* the restore step that moves the pointer whatever failed
RestoreLive_AlwaysUpdates(failing) ==
    /\ run.pc = "restoring"
    /\ failing \subseteq LiveFiles
    /\ live' = [file \in LiveFiles |->
                    IF file \in failing THEN live[file] ELSE snapshots[run.target].files[file]]
    /\ run' = [Happened("restore") EXCEPT !.pc = "relaunching", !.failed = failing,
                                          !.degraded = failing # {}]
    /\ activePointer' = run.target
    /\ snapshots' = [snapshots EXCEPT ![run.target].lastSwitchedAt = now]
    /\ UNCHANGED <<host, now>>
    /\ FrontendUnchanged

\* switchTo steps 3 and 4: restoreMany of the target's files into the live
\* location, the files in failing not written; the pointer and lastSwitchedAt
\* move only after a restore without failures
RestoreLive(failing) ==
    /\ run.pc = "restoring"
    /\ failing \subseteq LiveFiles
    /\ live' = [file \in LiveFiles |->
                    IF file \in failing THEN live[file] ELSE snapshots[run.target].files[file]]
    /\ run' = [Happened("restore") EXCEPT !.pc = "relaunching", !.failed = failing,
                                          !.degraded = failing # {}]
    /\ IF failing = {}
       THEN /\ activePointer' = run.target
            /\ snapshots' = [snapshots EXCEPT ![run.target].lastSwitchedAt = now]
       ELSE UNCHANGED <<activePointer, snapshots>>
    /\ UNCHANGED <<host, now>>
    /\ FrontendUnchanged

\* the host is relaunched (best effort); the run is finished
Relaunch(ok) ==
    /\ run.pc = "relaunching"
    /\ host' = IF ok THEN "running" ELSE host
    /\ run' = [Happened("relaunch") EXCEPT
                    !.pc = "finished", !.relaunchAttempted = TRUE,
                    !.error = IF run.error = "" /\ ~ok THEN "IOError" ELSE run.error]
    /\ UNCHANGED <<live, snapshots, activePointer, now>>
    /\ FrontendUnchanged

\* the user signs in to an account in the relaunched host: the host writes
\* that account's state into the empty live location
HostSignsIn(a) ==
    /\ host = "running"
    /\ run.pc = "idle"
    /\ live = FilesOf(0)
    /\ live' = FilesOf(a)
    /\ activePointer' = a
    /\ UNCHANGED <<host, snapshots, now, run>>
    /\ FrontendUnchanged

(* ---------- the toolbar ---------- *)
(* ---------- scripts/bump-version.sh: main ---------- *)
\* what a run of the script leaves alone
AppUnchanged ==
    UNCHANGED <<store, disk, flows, passwordDialog, isImporting, isExporting,
                isProcessLoading, confirmDialogOpen, loginRuns, switchRuns, login,
                backendVars, panel, tray, models, app>>

Exited(b, status) == [b EXCEPT !.pc = "exited", !.status = status]

\* main "$@" up to the confirmation prompt: help, check_files, the current
\* version of package.json, the choice of the new version
main(arg, missing) ==
    /\ bump.pc # "confirm"
    /\ bump.runs < MaxBumps
    /\ LET started == [NoBump EXCEPT !.runs = bump.runs + 1, !.arg = arg,
                                     !.filesBefore = versionFiles]
           current_version == versionFiles.package
           incremented == increment_version(current_version, arg.word)
       IN bump' =
            IF arg.word \in {"none", "-h", "--help"} THEN Exited(started, 0)
            ELSE IF missing THEN Exited(started, 1)
            ELSE IF arg.word \in {"patch", "minor", "major"}
            THEN IF incremented.status = 0
                 THEN [started EXCEPT !.pc = "confirm", !.current = current_version,
                                      !.new = incremented.out]
                 ELSE Exited([started EXCEPT !.current = current_version], 1)
            ELSE IF arg.word = "version" /\ validate_version(arg.parts)
            THEN [started EXCEPT !.pc = "confirm", !.current = current_version,
                                 !.new = arg.parts]
            ELSE Exited([started EXCEPT !.current = current_version], 1)
    /\ UNCHANGED versionFiles
    /\ AppUnchanged

\* the answer to the prompt: anything but y ends the run; y updates the
\* three files, and verify_versions finds them equal
ConfirmUpdate(reply) ==
    /\ bump.pc = "confirm"
    /\ IF reply
       THEN /\ versionFiles' = FilesAt(bump.new)
            /\ bump' = Exited(bump, 0)
       ELSE /\ UNCHANGED versionFiles
            /\ bump' = Exited([bump EXCEPT !.new = <<>>], 0)
    /\ AppUnchanged

(* ---------- AppUserPanel: delete and clear all ---------- *)
\* delete(identifier) of the repository: the store without that snapshot
delete_backup(name) == SelectSeq(store, LAMBDA e : e.filename # name)

\* clearAll() of the repository: the store with the snapshots at the indices
\* in retained left (none left when it succeeds)
clear_all_backups(retained) == SelectSeq(store, LAMBDA e : \E k \in retained : store[k] = e)

\* what the panel leaves alone, the store apart
PanelUnchanged ==
    UNCHANGED <<disk, flows, passwordDialog, isImporting, isExporting, isProcessLoading,
                confirmDialogOpen, loginRuns, switchRuns, login, backendVars,
                versionFiles, bump, tray, models, app>>

WithoutCall(i) == SubSeq(panel.calls, 1, i - 1) \o SubSeq(panel.calls, i + 1, Len(panel.calls))

\* handleDeleteBackup(backupName): the delete button of a user's row
handleDeleteBackup(backupName) ==
    /\ backupName \in Users
    /\ panel' = [panel EXCEPT !.backupToDelete = backupName, !.deleteDialogOpen = TRUE,
                              !.selected = backupName]
    /\ UNCHANGED store
    /\ PanelUnchanged

\* confirmDeleteBackup up to the call of antigravityAccount.delete
confirmDeleteBackup ==
    /\ panel.deleteDialogOpen
    /\ Len(panel.calls) < MaxRuns
    /\ panel' = IF panel.backupToDelete = Null THEN panel
                ELSE [panel EXCEPT !.calls =
                        Append(@, [kind |-> "delete", target |-> panel.backupToDelete])]
    /\ UNCHANGED store
    /\ PanelUnchanged

\* the rest of confirmDeleteBackup with the dialog closed and the target
\* cleared in a finally
DeleteReturns_ClosesAlways(i, rejected) ==
    /\ i \in 1..Len(panel.calls)
    /\ panel.calls[i].kind = "delete"
    /\ LET target == panel.calls[i].target
           ok == ~rejected /\ target \in Users
       IN /\ store' = IF ok THEN delete_backup(target) ELSE store
          /\ panel' = [panel EXCEPT !.calls = WithoutCall(i),
                                    !.toast = IF ok THEN "success" ELSE "error",
                                    !.deleteDialogOpen = FALSE,
                                    !.backupToDelete = Null]
    /\ PanelUnchanged

\* delete(identifier) of the repository returns, or fails (no snapshot of
\* that name, or the file cannot be removed); rest of confirmDeleteBackup
DeleteReturns(i, rejected) ==
    /\ i \in 1..Len(panel.calls)
    /\ panel.calls[i].kind = "delete"
    /\ LET target == panel.calls[i].target
       IN IF ~rejected /\ target \in Users
          THEN /\ store' = delete_backup(target)
               /\ panel' = [panel EXCEPT !.calls = WithoutCall(i), !.toast = "success",
                                         !.deleteDialogOpen = FALSE,
                                         !.backupToDelete = Null]
          ELSE /\ UNCHANGED store
               /\ panel' = [panel EXCEPT !.calls = WithoutCall(i), !.toast = "error"]
    /\ PanelUnchanged

\* onCancel and onOpenChange(false) of the delete dialog
DeleteDialogCancel ==
    /\ panel.deleteDialogOpen
    /\ panel' = [panel EXCEPT !.deleteDialogOpen = FALSE]
    /\ UNCHANGED store
    /\ PanelUnchanged

\* handleClearAllBackups
handleClearAllBackups ==
    /\ panel' = IF Users = {}
                THEN [panel EXCEPT !.toast = "error"]
                ELSE [panel EXCEPT !.isClearDialogOpen = TRUE]
    /\ UNCHANGED store
    /\ PanelUnchanged

\* confirmClearAllBackups up to the call of antigravityAccount.clearAllUsers
confirmClearAllBackups ==
    /\ panel.isClearDialogOpen
    /\ Len(panel.calls) < MaxRuns
    /\ panel' = [panel EXCEPT !.calls = Append(@, [kind |-> "clear", target |-> Null])]
    /\ UNCHANGED store
    /\ PanelUnchanged

\* clearAll() of the repository returns, or fails with the snapshots at the
\* indices in retained left; rest of confirmClearAllBackups
ClearAllReturns(i, retained) ==
    /\ i \in 1..Len(panel.calls)
    /\ panel.calls[i].kind = "clear"
    /\ retained \subseteq 1..Len(store)
    /\ store' = clear_all_backups(retained)
    /\ panel' = IF retained = {}
                THEN [panel EXCEPT !.calls = WithoutCall(i), !.toast = "success",
                                   !.isClearDialogOpen = FALSE]
                ELSE [panel EXCEPT !.calls = WithoutCall(i), !.toast = "error"]
    /\ PanelUnchanged

\* onCancel and onOpenChange(false) of the clear dialog
ClearDialogCancel ==
    /\ panel.isClearDialogOpen
    /\ panel' = [panel EXCEPT !.isClearDialogOpen = FALSE]
    /\ UNCHANGED store
    /\ PanelUnchanged

\* the steps of the panel
PanelSteps ==
    \/ \E backupName \in Users : handleDeleteBackup(backupName)
    \/ confirmDeleteBackup
    \/ \E i \in 1..MaxRuns, rejected \in BOOLEAN : DeleteReturns(i, rejected)
    \/ DeleteDialogCancel
    \/ handleClearAllBackups
    \/ confirmClearAllBackups
    \/ \E i \in 1..MaxRuns, retained \in SUBSET (1..MaxEntries) : ClearAllReturns(i, retained)
    \/ ClearDialogCancel

(* ---------- SystemTraySwitch ---------- *)
\* what the switch and the models store leave alone
WidgetUnchanged ==
    UNCHANGED <<store, disk, flows, passwordDialog, isImporting, isExporting,
                isProcessLoading, confirmDialogOpen, loginRuns, switchRuns, login,
                backendVars, versionFiles, bump, panel, app>>

\* handleCheckedChange without its guard
handleCheckedChange_NoGuard ==
    /\ tray.started < MaxToggles
    /\ tray' = [tray EXCEPT !.isChanging = TRUE, !.inFlight = @ + 1, !.started = @ + 1]
    /\ UNCHANGED models
    /\ WidgetUnchanged

\* handleCheckedChange up to await onCheckedChange(); the update of
\* isChanging is rendered before the next event is handled
handleCheckedChange ==
    /\ tray.started < MaxToggles
    /\ tray' = IF tray.isChanging \/ tray.disabled
               THEN tray
               ELSE [tray EXCEPT !.isChanging = TRUE, !.inFlight = @ + 1, !.started = @ + 1]
    /\ UNCHANGED models
    /\ WidgetUnchanged

\* onCheckedChange() settles: the parent has toggled checked, or it throws;
\* catch and finally of handleCheckedChange
OnCheckedChangeReturns(thrown) ==
    /\ tray.inFlight > 0
    /\ tray' = [tray EXCEPT !.isChanging = FALSE, !.inFlight = @ - 1,
                            !.checked = IF thrown THEN @ ELSE ~@]
    /\ UNCHANGED models
    /\ WidgetUnchanged

\* the parent renders the switch with another value of disabled
SetDisabled(disabled) ==
    /\ tray.disabled # disabled
    /\ tray' = [tray EXCEPT !.disabled = disabled]
    /\ UNCHANGED models
    /\ WidgetUnchanged

TraySteps ==
    \/ handleCheckedChange
    \/ \E thrown \in BOOLEAN : OnCheckedChangeReturns(thrown)
    \/ \E disabled \in BOOLEAN : SetDisabled(disabled)

(* ---------- useAvailableModels ---------- *)
InFlight(s) == models.fetches[s].pc \in {"loadCodeAssist", "fetchAvailableModels"}

\* fetchData(antigravityAccount) up to await CloudCodeAPI.loadCodeAssist
fetchData(s, email) ==
    /\ ~InFlight(s)
    /\ LET overlaps == \E o \in FetchSlots : o # s /\ InFlight(o)
       IN models' = [models EXCEPT !.fetches =
            [o \in FetchSlots |->
                IF o = s
                THEN [pc |-> "loadCodeAssist", email |-> email, response |-> NoResponse,
                      overlapped |-> overlaps]
                ELSE IF InFlight(o) THEN [@[o] EXCEPT !.overlapped = TRUE] ELSE @[o]]]
    /\ UNCHANGED tray
    /\ WidgetUnchanged

\* loadCodeAssist returns, or rejects and fetchData rejects with it
LoadCodeAssistReturns(s, rejected) ==
    /\ models.fetches[s].pc = "loadCodeAssist"
    /\ models' = [models EXCEPT !.fetches[s].pc =
                        IF rejected THEN "failed" ELSE "fetchAvailableModels"]
    /\ UNCHANGED tray
    /\ WidgetUnchanged

\* fetchAvailableModels returns and setState sets data to the one key of
\* this fetch
FetchAvailableModelsReturns_DropsOtherKeys(s, rejected, modelsResponse) ==
    /\ models.fetches[s].pc = "fetchAvailableModels"
    /\ models' = IF rejected
                 THEN [models EXCEPT !.fetches[s].pc = "failed"]
                 ELSE [models EXCEPT
                         !.data = [NoModels.data EXCEPT ![models.fetches[s].email] = modelsResponse],
                         !.fetches[s].pc = "done",
                         !.fetches[s].response = modelsResponse]
    /\ UNCHANGED tray
    /\ WidgetUnchanged

\* fetchAvailableModels returns and setState merges the response into
\* getState().data, or it rejects and fetchData rejects with it
FetchAvailableModelsReturns(s, rejected, modelsResponse) ==
    /\ models.fetches[s].pc = "fetchAvailableModels"
    /\ models' = IF rejected
                 THEN [models EXCEPT !.fetches[s].pc = "failed"]
                 ELSE [models EXCEPT
                         !.data = [@ EXCEPT ![models.fetches[s].email] = modelsResponse],
                         !.fetches[s].pc = "done",
                         !.fetches[s].response = modelsResponse]
    /\ UNCHANGED tray
    /\ WidgetUnchanged

ModelsSteps ==
    \/ \E s \in FetchSlots, email \in Accounts : fetchData(s, email)
    \/ \E s \in FetchSlots, rejected \in BOOLEAN : LoadCodeAssistReturns(s, rejected)
    \/ \E s \in FetchSlots, rejected \in BOOLEAN, modelsResponse \in Responses :
            FetchAvailableModelsReturns(s, rejected, modelsResponse)

(* ---------- App: detection, the running check, what is rendered ---------- *)
\* App renders AppContent whenever detection has ended
ContentRendered_IgnoresRunning == ~app.isDetecting

\* App renders AppContent: neither the detecting screen nor the
\* "not running" screen
ContentRendered == ~app.isDetecting /\ app.isRunning

\* what the steps of App leave alone, the state of AppContent apart
ShellUnchanged ==
    UNCHANGED <<store, disk, flows, isImporting, isExporting, isProcessLoading,
                loginRuns, switchRuns, login, backendVars, versionFiles, bump, tray,
                models>>

ContentUnchanged == UNCHANGED <<passwordDialog, confirmDialogOpen, panel>>

\* AppContent is taken off the screen: the state of its components is gone,
\* the calls they made go on
ContentUnmounted ==
    /\ passwordDialog' = ClosedDialog
    /\ confirmDialogOpen' = FALSE
    /\ panel' = [ClosedPanel EXCEPT !.calls = panel.calls, !.selected = panel.selected,
                                    !.toast = panel.toast]

\* useEffect: initializeApp() up to await detectAntigravityPath()
initializeApp ==
    /\ app.detect = "none"
    /\ app' = [app EXCEPT !.detect = "pending"]
    /\ ContentUnchanged
    /\ ShellUnchanged

\* detectAntigravityPath() returns found or not found, or throws; the
\* branches and the catch of initializeApp
DetectReturns(outcome) ==
    /\ app.detect = "pending"
    /\ app' = [app EXCEPT !.detect = outcome, !.isDetecting = FALSE]
    /\ ContentUnchanged
    /\ ShellUnchanged

\* useEffect: antigravityIsRunning.startAutoCheck()
startAutoCheck ==
    /\ ~app.autoCheck
    /\ app' = [app EXCEPT !.autoCheck = TRUE]
    /\ ContentUnchanged
    /\ ShellUnchanged

\* a check of the polling returns; App renders again
RunningCheckReturns(running) ==
    /\ app.autoCheck
    /\ app.isRunning # running
    /\ app' = [app EXCEPT !.isRunning = running]
    /\ IF ContentRendered /\ ~running THEN ContentUnmounted ELSE ContentUnchanged
    /\ ShellUnchanged

AppSteps ==
    \/ initializeApp
    \/ \E outcome \in {"found", "notFound", "thrown"} : DetectReturns(outcome)
    \/ startAutoCheck
    \/ \E running \in BOOLEAN : RunningCheckReturns(running)

\* a toolbar button acts only while no flag is set
ActionButtonEnabled == ~isAnyLoading

ToolbarOnExport(f) == ActionButtonEnabled /\ exportConfig(f)

ToolbarOnImport(f) == ActionButtonEnabled /\ importConfig(f)

\* handleBackupAndRestartClick: the confirm dialog is opened
handleBackupAndRestartClick ==
    /\ ActionButtonEnabled
    /\ confirmDialogOpen' = TRUE
    /\ UNCHANGED <<store, disk, flows, passwordDialog, isImporting, isExporting,
                   isProcessLoading, loginRuns, switchRuns>>
    /\ UNCHANGED coordVars

\* onCancel / onOpenChange(false) of the confirm dialog
ConfirmDialogCancel ==
    /\ confirmDialogOpen
    /\ confirmDialogOpen' = FALSE
    /\ UNCHANGED <<store, disk, flows, passwordDialog, isImporting, isExporting,
                   isProcessLoading, loginRuns, switchRuns>>
    /\ UNCHANGED coordVars

\* onConfirm: the dialog is closed and onBackupAndRestart is called
ConfirmDialogOnConfirm ==
    /\ confirmDialogOpen
    /\ loginRuns < MaxRuns
    /\ confirmDialogOpen' = FALSE
    /\ isProcessLoading' = TRUE
    /\ loginRuns' = loginRuns + 1
    /\ login' = PendingLogin
    /\ UNCHANGED <<store, disk, flows, passwordDialog, isImporting, isExporting, switchRuns>>
    /\ UNCHANGED <<backendVars, otherVars>>

(* ---------- specifications ---------- *)
\* the steps of a run after its call
FlowReturns(f, foreign) ==
    \/ \E rejected \in BOOLEAN : CollectReturns(f, rejected)
    \/ \E rejected \in BOOLEAN : EncryptReturns(f, rejected)
    \/ \E answer \in {"path", "none", "rejected"} : SaveReturns(f, answer)
    \/ \E rejected \in BOOLEAN : WriteReturns(f, rejected)
    \/ \E answer \in {"path", "none", "rejected"} : OpenReturns(f, answer)
    \/ \E file \in FilesOnDisk(foreign) : ReadReturns(f, file, FALSE)
    \/ ReadReturns(f, NoFile, TRUE)
    \/ \E rejected \in BOOLEAN : DecryptReturns(f, rejected)
    \/ \E failing \in SUBSET (1..MaxEntries) : RestoreReturns(f, FALSE, failing)
    \/ RestoreReturns(f, TRUE, {})

PasswordDialogSteps(passwords) ==
    \/ \E password \in passwords, confirmed \in BOOLEAN :
            PasswordDialogSubmit(password, confirmed)
    \/ handlePasswordDialogCancel
    \/ PasswordDialogOnOpenChange

\* one export or import at a time, every password and every file
Next ==
    \/ exportConfig(1)
    \/ importConfig(1)
    \/ FlowReturns(1, ForeignFiles)
    \/ PasswordDialogSteps(Passwords)

Spec == Init /\ [][Next]_vars

\* one export, then one symbol of the written file changes, then one import
TamperSymbols == {0, 1, 64, 65}

NextTamper ==
    \/ flows[1].kind = "none" /\ exportConfig(1)
    \/ flows[1].kind = "export" /\ disk.tampered /\ importConfig(1)
    \/ FlowReturns(1, {})
    \/ PasswordDialogSteps({GoodPassword})
    \/ \E pos \in 1..Len(disk.text), sym \in TamperSymbols : TamperFile(pos, sym)

SpecTamper == InitWith(1..MaxEntries) /\ [][NextTamper]_vars

\* the operations of the store and of the hooks called in any interleaving,
\* on a store that holds one backup
NextApi ==
    \/ \E f \in Flows : exportConfig(f) \/ importConfig(f) \/ FlowReturns(f, {})
    \/ PasswordDialogSteps({GoodPassword})
    \/ backupAndRestartAntigravity
    \/ \E rejected \in BOOLEAN : BackupAndRestartReturns(rejected)
    \/ handleSwitchAccount
    \/ SwitchReturns

SpecApi == InitWith({1}) /\ [][NextApi]_vars

\* the steps of a run whose collaborator calls all succeed
FlowSucceeds(f) ==
    \/ CollectReturns(f, FALSE)
    \/ EncryptReturns(f, FALSE)
    \/ SaveReturns(f, "path")
    \/ WriteReturns(f, FALSE)
    \/ OpenReturns(f, "path")
    \/ \E file \in FilesOnDisk({}) : ReadReturns(f, file, FALSE)
    \/ DecryptReturns(f, FALSE)
    \/ RestoreReturns(f, FALSE, {})

\* exports and imports called in any interleaving, every call succeeding
NextDialog ==
    \/ \E f \in Flows : exportConfig(f) \/ importConfig(f) \/ FlowSucceeds(f)
    \/ PasswordDialogSteps({GoodPassword})

SpecDialog == InitWith({1}) /\ [][NextDialog]_vars

\* the steps of the panel where every call succeeds
PanelSucceeds ==
    \/ \E backupName \in Users : handleDeleteBackup(backupName)
    \/ confirmDeleteBackup
    \/ \E i \in 1..MaxRuns : DeleteReturns(i, FALSE)
    \/ DeleteDialogCancel
    \/ handleClearAllBackups
    \/ confirmClearAllBackups
    \/ \E i \in 1..MaxRuns : ClearAllReturns(i, {})
    \/ ClearDialogCancel

\* exports in slot 1 while the panel deletes and clears, every call succeeding
NextCollected ==
    \/ exportConfig(1)
    \/ CollectReturns(1, FALSE)
    \/ EncryptReturns(1, FALSE)
    \/ SaveReturns(1, "path")
    \/ WriteReturns(1, FALSE)
    \/ PasswordDialogSteps({GoodPassword})
    \/ PanelSucceeds

SpecCollected == InitWith({MaxEntries}) /\ [][NextCollected]_vars

\* the user panel and the tray switch of the main window
NextPanel ==
    \/ PanelSteps
    \/ TraySteps

SpecPanel == Init /\ [][NextPanel]_vars

\* calls of fetchData, in any interleaving
SpecModels == Init /\ [][ModelsSteps]_vars

\* the controls of AppContent, there to be used while App renders it
ContentControls ==
    /\ ContentRendered
    /\ \/ ToolbarOnExport(1)
       \/ ToolbarOnImport(1)
       \/ PasswordDialogSteps({GoodPassword})
       \/ handleBackupAndRestartClick
       \/ ConfirmDialogCancel
       \/ ConfirmDialogOnConfirm
       \/ handleSwitchAccount
       \/ \E backupName \in Users : handleDeleteBackup(backupName)
       \/ confirmDeleteBackup
       \/ DeleteDialogCancel

\* App from its first render: detection, the running check, the controls of
\* AppContent and the returns of the calls they make
NextApp ==
    \/ AppSteps
    \/ ContentControls
    \/ FlowSucceeds(1)
    \/ \E rejected \in BOOLEAN : BackupAndRestartReturns(rejected)
    \/ SwitchReturns
    \/ \E i \in 1..MaxRuns, rejected \in BOOLEAN : DeleteReturns(i, rejected)

SpecApp == InitWith({1}) /\ [][NextApp]_vars

\* the same, where the effect of the first render runs and the detection
\* call returns or throws
SpecAppFair ==
    /\ SpecApp
    /\ WF_vars(initializeApp)
    /\ WF_vars(\E outcome \in {"found", "notFound", "thrown"} : DetectReturns(outcome))

\* imports of a bundle of entries that the store does not hold, and exports
NextRestore ==
    \/ importConfig(1)
    \/ flows[1].kind # "export" /\ disk.origin = "none" /\ exportConfig(1)
    \/ FlowReturns(1, {BundleOfOthers})
    \/ PasswordDialogSteps({GoodPassword})

SpecRestore == Init /\ [][NextRestore]_vars

\* one export or import at a time and the login-new-account hook, every
\* collaborator call returning or failing
NextFail ==
    \/ exportConfig(1)
    \/ importConfig(1)
    \/ FlowReturns(1, ForeignFiles)
    \/ PasswordDialogSteps({GoodPassword})
    \/ backupAndRestartAntigravity
    \/ \E rejected \in BOOLEAN : BackupAndRestartReturns(rejected)

SpecFail == Init /\ [][NextFail]_vars

\* the same, where every collaborator call that was made returns or fails:
\* weak fairness of the calls' returns; for encrypt_config_data and
\* decrypt_config_data, whose return is enabled exactly while the run is at
\* that call, the condition is written with that state
SpecFair ==
    /\ SpecFail
    /\ WF_vars(\E rejected \in BOOLEAN : BackupAndRestartReturns(rejected))
    /\ WF_vars(\E answer \in {"path", "none", "rejected"} : SaveReturns(1, answer))
    /\ WF_vars(\E rejected \in BOOLEAN : WriteReturns(1, rejected))
    /\ WF_vars(\/ \E failing \in SUBSET (1..MaxEntries) : RestoreReturns(1, FALSE, failing)
               \/ RestoreReturns(1, TRUE, {}))
    /\ []<>(flows[1].pc # "encrypting")
    /\ []<>(flows[1].pc # "decrypting")

\* login new account and switch account, with the steps of the coordinator
NextSwitch ==
    \/ backupAndRestartAntigravity
    \/ handleSwitchAccount
    \/ loginNewAccount
    \/ \E identifier \in Accounts : switchTo(identifier)
    \/ \E outcome \in {"stopped", "timeout", "failed"} : WaitUntilStopped(outcome)
    \/ \E ok \in BOOLEAN : SnapshotLive(ok)
    \/ \E cleared \in SUBSET LiveFiles : ClearLive(cleared)
    \/ \E failing \in SUBSET LiveFiles : RestoreLive(failing)
    \/ \E ok \in BOOLEAN : Relaunch(ok)
    \/ run.kind = "login" /\ run.pc = "finished" /\ BackupAndRestartReturns(run.error # "")
    \/ run.kind = "switch" /\ run.pc = "finished" /\ SwitchReturns
    \/ \E a \in Accounts : HostSignsIn(a)

SpecSwitch == InitWith({1}) /\ [][NextSwitch]_vars

\* runs of the release script
NextBump ==
    \/ \E arg \in Arguments, missing \in BOOLEAN : main(arg, missing)
    \/ \E reply \in BOOLEAN : ConfirmUpdate(reply)

SpecBump == InitWith({1}) /\ [][NextBump]_vars

\* the operations started from the toolbar, the user panel and the tray
NextUI ==
    \/ \E f \in Flows : ToolbarOnExport(f) \/ ToolbarOnImport(f) \/ FlowReturns(f, {})
    \/ PasswordDialogSteps({GoodPassword})
    \/ handleBackupAndRestartClick
    \/ ConfirmDialogCancel
    \/ ConfirmDialogOnConfirm
    \/ \E rejected \in BOOLEAN : BackupAndRestartReturns(rejected)
    \/ handleSwitchAccount
    \/ TraySwitchAccount
    \/ SwitchReturns

SpecUI == InitWith({1}) /\ [][NextUI]_vars

(* ---------- properties ---------- *)
Called(f, command) == \E i \in 1..Len(flows[f].calls) : flows[f].calls[i] = command

\* a run is inside its onSubmit handler
InOnSubmit(f) == flows[f].pc \in {"encrypting", "saving", "writing", "decrypting", "restoring"}

\* C1: a call of exportConfig made while isExporting is true is rejected at
\* once: it invokes no backend command and opens no dialog.
C1_SecondExportRejected ==
    \A f \in Flows :
        flows[f].kind = "export" /\ flows[f].calledWhileExporting => flows[f].calls = <<>>

\* C2: at most one export, import, switch or login-new run is active at any
\* time (an export or import counted only while inside its onSubmit handler,
\* where its flag is set).
C2_OneRunAtATime ==
    Cardinality({f \in Flows : InOnSubmit(f)}) + loginRuns + switchRuns <= 1

\* a decoded value has a version, and backups that are a sequence
StructurallyValid(v) ==
    /\ v.t = "obj"
    /\ Truthy(GetProp(v, KeyVersion))
    /\ GetProp(v, KeyBackups).t = "arr"

\* C3: an import run whose decryption fails, whose decrypted text does not
\* parse, or whose parsed bundle fails the structural validation never
\* invokes restore_backup_files and ends with an error status.
C3_ImportAbortsBeforeRestore ==
    \A f \in Flows :
        flows[f].kind = "import" =>
            /\ Called(f, "restore_backup_files") =>
                    LET decrypted == DecryptConfigData(flows[f].text, flows[f].password)
                        parsed == JsonParse(decrypted.text)
                    IN decrypted.ok /\ parsed.ok /\ StructurallyValid(parsed.v)
            /\ flows[f].thrownAt \in {"decrypt", "parse", "format"} =>
                    /\ flows[f].pc = "done"
                    /\ flows[f].shown = Shown("decryptFailed", TRUE, 0, 0)
                    /\ ~Called(f, "restore_backup_files")
                    /\ ~isImporting

\* an import run reached each of the three failures
C3_Witness ==
    /\ flows[1].kind = "import"
    /\ flows[1].pc = "done"
    /\ flows[1].thrownAt = "format"
    /\ flows[1].file.origin = "foreign"

\* C4: a decoded bundle whose backupCount differs from the length of its
\* backups never reaches restore_backup_files.
C4_CountMismatchRejected ==
    \A f \in Flows :
        flows[f].kind = "import" /\ Called(f, "restore_backup_files") =>
            GetProp(flows[f].configData, KeyBackupCount)
                = JNum(Len(GetProp(flows[f].configData, KeyBackups).kids))

\* C5: an import, with the right password, of an exported file of which one
\* symbol was changed ends with an error status; no such run passes entries
\* other than the exported ones to restore_backup_files and reports success.
C5_TamperDetected ==
    \A f \in Flows :
        /\ flows[f].kind = "import"
        /\ flows[f].pc = "done"
        /\ flows[f].file.tampered
        /\ flows[f].password = flows[f].file.password
        /\ Called(f, "restore_backup_files")
        /\ ~flows[f].shown.isError
        => LET S == flows[f].file.entries
           IN GetProp(flows[f].configData, KeyBackups).kids =
                  [k \in 1..Len(S) |-> BackupDataToJson(S[k])]

\* C6: encrypt_config_data and decrypt_config_data are invoked only with a
\* password of 4 to 50 characters.
C6_PasswordPolicy ==
    \A f \in Flows :
        Called(f, "encrypt_config_data") \/ Called(f, "decrypt_config_data") =>
            Len(flows[f].password) \in 4..50

\* a file was written under a password of 4 characters, and is decrypted
\* under one of 50; the dialog had refused a password before
C6_Witness ==
    /\ disk.origin = "export"
    /\ Len(disk.password) = 4
    /\ flows[1].kind = "import"
    /\ Called(1, "decrypt_config_data")
    /\ Len(flows[1].password) = 50
    /\ passwordDialog.message \in {"tooShort", "tooLong"}

\* C7: an export run whose collect_backup_contents returned no entry ends
\* with the no-data error status, having shown no password dialog and having
\* invoked nothing but collect_backup_contents.
C7_EmptyExportGuard ==
    \A f \in Flows :
        /\ flows[f].kind = "export"
        /\ flows[f].pc # "collecting"
        /\ flows[f].thrownAt # "collect"
        /\ flows[f].entries = <<>>
        => /\ flows[f].pc = "done"
           /\ flows[f].shown = Shown("noData", TRUE, 0, 0)
           /\ ~flows[f].askedPassword
           /\ flows[f].calls = <<"collect_backup_contents">>
           /\ ~isExporting

C7_Witness ==
    /\ flows[1].kind = "export"
    /\ flows[1].pc = "done"
    /\ flows[1].shown.msg = "noData"
    /\ store = <<>>

\* C8: an import, under the password of the export, of a file that an export
\* of the entries S wrote passes the format check and invokes
\* restore_backup_files with a bundle whose backupCount is the number of
\* entries of S and whose backups are the entries of S in order.
C8_RoundTrip ==
    \A f \in Flows :
        /\ flows[f].kind = "import"
        /\ flows[f].file.origin = "export"
        /\ ~flows[f].file.tampered
        /\ flows[f].password = flows[f].file.password
        /\ Called(f, "decrypt_config_data")
        /\ flows[f].pc # "decrypting"
        /\ flows[f].thrownAt # "backend"
        => LET S == flows[f].file.entries
               backups == GetProp(flows[f].configData, KeyBackups)
           IN /\ Called(f, "restore_backup_files")
              /\ StructurallyValid(flows[f].configData)
              /\ GetProp(flows[f].configData, KeyBackupCount) = JNum(Len(S))
              /\ Len(backups.kids) = Len(S)
              /\ \A k \in 1..Len(S) :
                    /\ IsBackupDataJson(backups.kids[k])
                    /\ BackupDataFromJson(backups.kids[k]) = S[k]

\* a file written from two entries under a password of 50 characters was
\* imported under that password
C8_Witness ==
    /\ flows[1].kind = "import"
    /\ flows[1].pc = "done"
    /\ flows[1].file.origin = "export"
    /\ Len(flows[1].file.entries) = MaxEntries
    /\ Len(flows[1].password) = MaxPasswordLength
    /\ flows[1].password = flows[1].file.password
    /\ flows[1].shown.msg = "imported"
    /\ flows[1].shown.restored = MaxEntries

\* C9: an import run whose restore_backup_files returned failed entries ends
\* with a status that is no error and carries restoredCount and the number of
\* failed entries.
C9_PartialFailureIsSuccess ==
    \A f \in Flows :
        flows[f].kind = "import" /\ Len(flows[f].result.failed) > 0 =>
            /\ flows[f].pc = "done"
            /\ ~flows[f].shown.isError
            /\ flows[f].shown.restored = flows[f].result.restoredCount
            /\ flows[f].shown.failed = Len(flows[f].result.failed)
            /\ flows[f].thrownAt = ""

\* of two entries one was restored and one failed
C9_Witness ==
    /\ flows[1].kind = "import"
    /\ flows[1].pc = "done"
    /\ flows[1].result.restoredCount = 1
    /\ Len(flows[1].result.failed) = 1

\* C10: a run that stops at a cancellation point (no file selected, password
\* dialog cancelled, no save path) shows no status with the error flag.
C10_CancelledIsNoError ==
    \A f \in Flows :
        flows[f].shown.msg \in {"noFile", "cancelled", "noSavePath"} => ~flows[f].shown.isError

IsPrefix(a, b) == Len(a) <= Len(b) /\ a = SubSeq(b, 1, Len(a))

HasCompleted(f, step) == \E i \in 1..Len(flows[f].steps) : flows[f].steps[i] = step

\* C11 as stated: the steps of an export run complete in the order collect,
\* serialize, password, encrypt, save, write.
C11_SerializeBeforePassword ==
    \A f \in Flows :
        flows[f].kind = "export" =>
            IsPrefix(flows[f].steps,
                     <<"collect", "serialize", "password", "encrypt", "save", "write">>)

\* C11 amended: the steps of an export run complete in the order collect,
\* password, serialize, encrypt, save, write, and encrypt_config_data, save and
\* write_text_file are each invoked only after the step before has completed.
C11_ExportStepOrder ==
    \A f \in Flows :
        flows[f].kind = "export" =>
            /\ IsPrefix(flows[f].steps,
                        <<"collect", "password", "serialize", "encrypt", "save", "write">>)
            /\ IsPrefix(flows[f].calls,
                        <<"collect_backup_contents", "encrypt_config_data", "save",
                          "write_text_file">>)
            /\ Called(f, "encrypt_config_data") => HasCompleted(f, "serialize")
            /\ Called(f, "save") => HasCompleted(f, "encrypt")
            /\ Called(f, "write_text_file") => HasCompleted(f, "save")
            /\ HasCompleted(f, "collect") => Called(f, "collect_backup_contents")
            /\ HasCompleted(f, "encrypt") => Called(f, "encrypt_config_data")
            /\ HasCompleted(f, "save") => Called(f, "save")
            /\ HasCompleted(f, "write") => Called(f, "write_text_file")

\* an export run has completed all six steps
C11_Witness ==
    /\ flows[1].kind = "export"
    /\ flows[1].pc = "done"
    /\ Len(flows[1].steps) = 6
    /\ disk.origin = "export"

\* a run ended by the user: no file selected, no save path, or the password
\* dialog closed without a submitted password
EndedByCancellation(f) ==
    /\ flows[f].pc = "done"
    /\ flows[f].thrownAt = ""
    /\ \/ flows[f].shown.msg \in {"noFile", "noSavePath", "cancelled"}
       \/ flows[f].askedPassword /\ flows[f].calls \in {<<"collect_backup_contents">>,
                                                        <<"open", "readFile">>}

\* C12 as stated: a run ended by a cancellation has invoked neither
\* encrypt_config_data nor decrypt_config_data.
C12_NoCancelAfterEncrypt ==
    \A f \in Flows :
        EndedByCancellation(f) =>
            ~Called(f, "encrypt_config_data") /\ ~Called(f, "decrypt_config_data")

\* C12 amended: a run is ended by a cancellation only at the file selection
\* of an import, at the password entry, or at the save-location request of an
\* export; a run that has invoked decrypt_config_data or write_text_file is
\* never ended by a cancellation.
C12_CancellationPoints ==
    \A f \in Flows :
        EndedByCancellation(f) =>
            /\ flows[f].calls \in {<<"open">>, <<"open", "readFile">>,
                                   <<"collect_backup_contents">>,
                                   <<"collect_backup_contents", "encrypt_config_data", "save">>}
            /\ ~Called(f, "decrypt_config_data")
            /\ ~Called(f, "restore_backup_files")
            /\ ~Called(f, "write_text_file")

\* an export run was ended at the save dialog, after the encryption
C12_Witness ==
    /\ flows[1].kind = "export"
    /\ EndedByCancellation(1)
    /\ flows[1].shown.msg = "noSavePath"
    /\ HasCompleted(1, "encrypt")

\* C13: a failure of a collaborator call (file dialog, file read, collect,
\* encrypt, decrypt, JSON.parse, format check, restore, write,
\* backup_and_restart_antigravity) ends the run normally with an error
\* reported and its flag released; no call of the hook is rejected.
C13_NoUnhandledFailure ==
    /\ \A f \in Flows :
          flows[f].thrownAt # "" =>
              /\ flows[f].pc = "done"
              /\ flows[f].shown.isError
              /\ flows[f].shown.msg =
                    CASE flows[f].thrownAt = "collect" -> "collectFailed"
                      [] flows[f].thrownAt \in {"encrypt", "save", "write"} -> "exportFailed"
                      [] flows[f].thrownAt \in {"open", "readFile"} -> "fileOpFailed"
                      [] OTHER -> "decryptFailed"
              /\ flows[f].kind = "export" => ~isExporting
              /\ flows[f].kind = "import" => ~isImporting
    /\ login.promise # "rejected"
    /\ login.thrownAt # "" => login.promise = "resolved" /\ login.toast = "error"
    /\ login.promise = "resolved" /\ loginRuns = 0 => ~isProcessLoading

\* JSON.parse threw in an import run and the backend command of the hook failed
C13_Witness ==
    /\ flows[1].thrownAt = "parse"
    /\ login.thrownAt = "backup_and_restart_antigravity"
    /\ login.promise = "resolved"

RunDid(event) == \E i \in 1..Len(run.events) : run.events[i] = event

\* C14: a switchTo or loginNewAccount run in which the host does not report
\* stopped within the timeout ends with TimeoutError, and the live location
\* is as it was before the run: nothing was snapshotted, cleared or restored.
C14_SwitchTimeoutSafety ==
    /\ run.pc = "finished" /\ run.error = "TimeoutError" =>
          /\ live = run.liveBefore
          /\ run.events = <<>>
          /\ activePointer = run.pointerBefore
          /\ ~run.relaunchAttempted
    /\ run.kind # "none" /\ ~RunDid("stop") =>
          live = run.liveBefore /\ activePointer = run.pointerBefore

\* a loginNewAccount run timed out after an earlier switch to account 2
C14_Witness ==
    /\ run.kind = "login"
    /\ run.pc = "finished"
    /\ run.error = "TimeoutError"
    /\ activePointer = 2
    /\ live = FilesOf(2)

\* C15: a loginNewAccount run that has stopped the host ends only after a
\* relaunch was attempted, also when the snapshot, the clear or the relaunch
\* fails; no run ends with the host stopped and no relaunch attempted.
C15_BestEffortRelaunch ==
    run.kind = "login" /\ run.pc = "finished" =>
        /\ RunDid("stop") => run.relaunchAttempted /\ run.events[Len(run.events)] = "relaunch"
        /\ host = "stopped" => run.relaunchAttempted

\* the snapshot failed after the stop, and the host was relaunched
C15_Witness ==
    /\ run.kind = "login"
    /\ run.pc = "finished"
    /\ run.error = "IOError"
    /\ run.events = <<"stop", "relaunch">>
    /\ host = "running"

\* C16: after a switchTo run, the active pointer is the target and its
\* lastSwitchedAt is new only when the restore had no failure; when a file
\* failed, or the run was aborted before the restore, pointer and
\* lastSwitchedAt are as before, and a failed file flags the run degraded.
C16_PointerOnlyOnCleanRestore ==
    run.kind = "switch" /\ run.pc \in {"relaunching", "finished"} =>
        IF RunDid("restore") /\ run.failed = {}
        THEN /\ activePointer = run.target
             /\ snapshots[run.target].lastSwitchedAt = now
             /\ now > run.switchedBefore
             /\ ~run.degraded
        ELSE /\ activePointer = run.pointerBefore
             /\ snapshots[run.target].lastSwitchedAt = run.switchedBefore
             /\ RunDid("restore") => run.degraded

\* a switch to another account ended with a file that could not be written
C16_Witness ==
    /\ run.kind = "switch"
    /\ run.pc = "finished"
    /\ run.failed # {}
    /\ run.failed # LiveFiles
    /\ run.target # run.pointerBefore
    /\ live # run.liveBefore

\* C17: the live location never holds files of two different snapshots.
C17_NoMixedLiveState ==
    \A file, other \in LiveFiles :
        live[file] # 0 /\ live[other] # 0 => live[file] = live[other]

\* C19: a loginNewAccount run stops the host first, captures the live files
\* before it clears them, and relaunches after the clear; the live location
\* changes only after a snapshot of what it held was stored in the same run.
C19_LoginNewAccountOrdering ==
    run.kind = "login" =>
        /\ \/ IsPrefix(run.events, <<"stop", "snapshot", "clear", "relaunch">>)
           \/ run.events \in {<<"stop", "relaunch">>, <<"stop", "snapshot", "relaunch">>}
        /\ live # run.liveBefore =>
              /\ RunDid("snapshot")
              /\ snapshots[run.pointerBefore].exists
              /\ snapshots[run.pointerBefore].files = run.liveBefore

\* a run went through all four steps: the snapshot holds what was cleared
C19_Witness ==
    /\ run.kind = "login"
    /\ run.pc = "finished"
    /\ run.events = <<"stop", "snapshot", "clear", "relaunch">>
    /\ live = FilesOf(0)
    /\ run.liveBefore = FilesOf(2)
    /\ snapshots[2].files = FilesOf(2)

\* the entries an import run passed to restore_backup_files
PassedToRestore(f) ==
    LET backups == GetProp(flows[f].configData, KeyBackups).kids
    IN [k \in 1..Len(backups) |-> BackupDataFromJson(backups[k])]

\* C18: restore_backup_files attempts every entry: restoredCount is the number
\* of entries written, failed lists the entries that could not be written, in
\* order, with filename and reason, the two add up to the number of entries,
\* and every entry that could be written is in the store, also those before
\* and after a failure.
C18_RestoreManyIndependent ==
    \A f \in Flows :
        flows[f].kind = "import" /\ flows[f].pc = "done"
        /\ Called(f, "restore_backup_files") /\ flows[f].thrownAt = "" =>
            LET entries == PassedToRestore(f)
                failing == flows[f].failing
                result == flows[f].result
                lost == SelectSeq([k \in 1..Len(entries) |-> k], LAMBDA k : k \in failing)
            IN /\ result.restoredCount = Len(entries) - Cardinality(failing)
               /\ result.restoredCount + Len(result.failed) = Len(entries)
               /\ Len(result.failed) = Len(lost)
               /\ \A j \in 1..Len(lost) :
                     /\ result.failed[j].filename = entries[lost[j]].filename
                     /\ result.failed[j].error # ""
               /\ \A k \in 1..Len(entries) :
                     k \notin failing
                     /\ (\A later \in (k + 1)..Len(entries) :
                            later \in failing \/ entries[later].filename # entries[k].filename)
                     => \E i \in 1..Len(store) : store[i] = entries[k]
               /\ \A i \in 1..Len(store) :
                     \/ \E n \in 1..Len(flows[f].storeBefore) : flows[f].storeBefore[n] = store[i]
                     \/ \E k \in 1..Len(entries) : k \notin failing /\ entries[k] = store[i]
               /\ \A n \in 1..Len(flows[f].storeBefore) :
                     \/ \E i \in 1..Len(store) : store[i] = flows[f].storeBefore[n]
                     \/ \E k \in 1..Len(entries) :
                            k \notin failing
                            /\ entries[k].filename = flows[f].storeBefore[n].filename

\* of two entries new to the store the first could not be written and the
\* second was
C18_Witness ==
    /\ flows[1].kind = "import"
    /\ flows[1].pc = "done"
    /\ flows[1].file.origin = "foreign"
    /\ flows[1].failing = {1}
    /\ flows[1].result.restoredCount = 1
    /\ \E i \in 1..Len(store) : store[i] = Entry(MaxEntries + 2)
    /\ \A i \in 1..Len(store) : store[i] # Entry(MaxEntries + 1)

\* C20: an import run whose selected file holds no text ends with the
\* empty-file error, having asked for no password and having invoked neither
\* decrypt_config_data nor restore_backup_files.
C20_EmptyImportFile ==
    \A f \in Flows :
        flows[f].kind = "import" /\ HasCompleted(f, "read") /\ flows[f].file.text = <<>> =>
            /\ flows[f].pc = "done"
            /\ flows[f].shown = Shown("emptyFile", TRUE, 0, 0)
            /\ ~flows[f].askedPassword
            /\ flows[f].calls = <<"open", "readFile">>
            /\ ~isImporting

C20_Witness ==
    /\ flows[1].kind = "import"
    /\ flows[1].pc = "done"
    /\ flows[1].shown.msg = "emptyFile"
    /\ flows[1].file.origin = "foreign"

\* C21: the configData an export run has built has a backupCount equal to the
\* length of its backups, which are the collected entries one for one, and a
\* version that is a non-empty string.
C21_ExportedBundleInvariant ==
    \A f \in Flows :
        flows[f].kind = "export" /\ HasCompleted(f, "serialize") =>
            LET configData == flows[f].configData
                backups == GetProp(configData, KeyBackups)
            IN /\ configData.t = "obj"
               /\ backups.t = "arr"
               /\ GetProp(configData, KeyBackupCount) = JNum(Len(backups.kids))
               /\ Len(backups.kids) = Len(flows[f].entries)
               /\ GetProp(configData, KeyVersion).t = "str"
               /\ Len(GetProp(configData, KeyVersion).s) > 0

\* an export of MaxEntries collected entries has built its configData
C21_Witness ==
    /\ flows[1].kind = "export"
    /\ HasCompleted(1, "serialize")
    /\ Len(flows[1].entries) = MaxEntries
    /\ Len(GetProp(flows[1].configData, KeyBackups).kids) = MaxEntries

\* the value a part of a version stands for
PartValue(text) == NumeralValue(text, 10)

\* C22: a run of the script that has chosen its new version from 'patch',
\* 'minor' or 'major' has major.minor.(patch+1), major.(minor+1).0 or
\* (major+1).0.0 of the current version; a run with another word that is no
\* version and no help flag ends with an error and the files as they were.
C22_VersionBumpArithmetic ==
    LET M == PartValue(bump.current[1])
        m == PartValue(bump.current[2])
        p == PartValue(bump.current[3])
        new == [i \in 1..Len(bump.new) |-> PartValue(bump.new[i])]
    IN /\ bump.pc = "confirm" /\ bump.arg.word = "patch" => new = <<M, m, p + 1>>
       /\ bump.pc = "confirm" /\ bump.arg.word = "minor" => new = <<M, m + 1, 0>>
       /\ bump.pc = "confirm" /\ bump.arg.word = "major" => new = <<M + 1, 0, 0>>
       /\ bump.pc # "idle" /\ bump.arg.word = "build" =>
            /\ bump.pc = "exited"
            /\ bump.status = 1
            /\ versionFiles = bump.filesBefore

\* C23: a flag that is set is reset later: isExporting and isImporting by the
\* onSubmit handler that set them, isProcessLoading by the hook, whichever
\* way the run ends; a run inside its onSubmit handler comes to its end.
C23_FlagsReleased ==
    /\ isExporting ~> ~isExporting
    /\ isImporting ~> ~isImporting
    /\ isProcessLoading ~> ~isProcessLoading
    /\ \A f \in {1} : InOnSubmit(f) ~> (flows[f].pc = "done" /\ ~isExporting /\ ~isImporting)

\* an export whose write_text_file failed has ended with its flag reset
C23_Witness ==
    /\ flows[1].kind = "export"
    /\ flows[1].pc = "done"
    /\ flows[1].thrownAt = "write"
    /\ ~isExporting

\* a started run that has not yet come to its onSubmit handler
BeforeOnSubmit(f) == flows[f].pc \in {"collecting", "selecting", "reading", "password"}

\* C24: isExporting (isImporting) is true only while an export (import) run
\* is inside its onSubmit handler; while a started run collects, selects or
\* reads its file or waits for the password, and no run is inside its
\* handler, both flags are false and the toolbar sees nothing in flight.
C24_FlagCoverageWindow ==
    /\ isExporting => \E f \in Flows : flows[f].kind = "export" /\ InOnSubmit(f)
    /\ isImporting => \E f \in Flows : flows[f].kind = "import" /\ InOnSubmit(f)
    /\ \A f \in Flows :
            BeforeOnSubmit(f) /\ (\A g \in Flows : ~InOnSubmit(g)) =>
                ~isExporting /\ ~isImporting /\ ~isAnyLoading

\* an export waits for its password while no flag is set
C24_Witness ==
    /\ flows[1].kind = "export"
    /\ flows[1].pc = "password"
    /\ HeldByDialog(1)
    /\ ~isAnyLoading

\* C25: the run that calls showPasswordDialog becomes the one request the
\* dialog holds, whatever request was pending; a submission starts the
\* onSubmit of the held request only and moves no other run; a run whose
\* request was replaced stays at its password step until its slot is reused.
C25_SingleDialogSlot ==
    [][\A f \in Flows :
        /\ flows[f].pc # "password" /\ flows'[f].pc = "password" =>
                passwordDialog'.isOpen /\ passwordDialog'.owner = f
        /\ flows[f].pc = "password" /\ flows'[f].pc \in {"encrypting", "decrypting"} =>
                /\ HeldByDialog(f)
                /\ \A g \in Flows \ {f} : flows'[g] = flows[g]
        /\ flows[f].pc = "password" /\ ~HeldByDialog(f) =>
                \/ flows'[f] = flows[f]
                \/ flows'[f].pc \in {"collecting", "selecting"}
      ]_vars

\* the request of run 1 was replaced by that of run 2, whose export is done
C25_Witness ==
    /\ flows[1].pc = "password"
    /\ flows[1].askedPassword
    /\ flows[2].pc = "done"
    /\ flows[2].kind = "export"
    /\ HasCompleted(2, "write")
    /\ passwordDialog.owner = 2

C27_TraySwitchGuard ==
    [][/\ tray.isChanging \/ tray.disabled => tray'.started = tray.started
       /\ tray'.inFlight < tray.inFlight => ~tray'.isChanging
       /\ tray'.inFlight <= 1
       /\ tray'.isChanging <=> tray'.inFlight = 1]_vars

\* a call has thrown, a later one is in flight, and the switch is disabled
\* in the meantime
C27_Witness ==
    /\ tray.started = MaxToggles
    /\ tray.inFlight = 1
    /\ tray.isChanging
    /\ tray.disabled
    /\ ~tray.checked

\* C28: in every interleaving of fetchData calls, the step that completes a
\* fetch for an account sets data[email] to its response and leaves every
\* other key as it was; a step that fails a fetch, and every other step,
\* leaves data unchanged; so the response of a completed fetch stays in data
\* until a later fetch for the same email completes.
C28_ModelsStoreMerge ==
    [][\A s \in FetchSlots :
        LET before == models.fetches[s]
            after  == models'.fetches[s]
        IN /\ before.pc = "fetchAvailableModels" /\ after.pc = "done" =>
                /\ models'.data[after.email] = after.response
                /\ after.response \in Responses
                /\ \A other \in Accounts \ {after.email} :
                        models'.data[other] = models.data[other]
           /\ after.pc = "failed" /\ before.pc # "failed" => models'.data = models.data
           /\ (\A o \in FetchSlots : models'.fetches[o].pc = "done" =>
                                        models.fetches[o].pc = "done")
                => models'.data = models.data]_vars

\* two fetches for distinct emails were in flight together, both have
\* completed, and data holds the response of each
C28_Witness ==
    /\ models.fetches[1].pc = "done" /\ models.fetches[1].overlapped
    /\ models.fetches[2].pc = "done" /\ models.fetches[2].overlapped
    /\ models.fetches[1].email # models.fetches[2].email
    /\ models.data[models.fetches[1].email] = models.fetches[1].response
    /\ models.data[models.fetches[2].email] = models.fetches[2].response

\* the step settles a call of the given kind
Settles(kind) ==
    \E i \in 1..Len(panel.calls) :
        panel.calls[i].kind = kind /\ panel'.calls = WithoutCall(i)

\* C29: a call of the repository's delete is started only by the confirm
\* action of the open delete dialog, with the name last given to
\* handleDeleteBackup, never without a target; when a delete succeeds the
\* dialog is closed and the target cleared; when it fails the dialog and the
\* target are left as they are, so that an open dialog stays open with the
\* same target; the clear-all dialog opens only when there is at least one
\* user.
C29_DeleteConfirmation ==
    [][/\ Len(panel'.calls) > Len(panel.calls)
            /\ panel'.calls[Len(panel'.calls)].kind = "delete" =>
                /\ panel.deleteDialogOpen
                /\ panel'.calls[Len(panel'.calls)].target = panel.selected
                /\ panel.selected # Null
                /\ panel' = [panel EXCEPT !.calls = panel'.calls]
       /\ Settles("delete") /\ store' # store =>
                ~panel'.deleteDialogOpen /\ panel'.backupToDelete = Null
       /\ Settles("delete") /\ store' = store =>
                /\ panel'.deleteDialogOpen = panel.deleteDialogOpen
                /\ panel'.backupToDelete = panel.backupToDelete
                /\ panel'.toast = "error"
       /\ ~panel.isClearDialogOpen /\ panel'.isClearDialogOpen => Users # {}]_vars

\* a delete has failed and its dialog is still open with the target last
\* selected, which the store still holds
C29_Witness ==
    /\ panel.toast = "error"
    /\ panel.calls = <<>>
    /\ panel.deleteDialogOpen
    /\ panel.backupToDelete = panel.selected
    /\ panel.backupToDelete \in Users
    /\ ~panel.isClearDialogOpen

\* the step starts an import, an export, a login-new-account, a switch or a
\* delete, or opens one of their dialogs
StartsOperation ==
    \/ \E f \in Flows : flows[f].pc \notin {"collecting", "selecting"}
                        /\ flows'[f].pc \in {"collecting", "selecting"}
    \/ loginRuns' > loginRuns
    \/ switchRuns' > switchRuns
    \/ Len(panel'.calls) > Len(panel.calls)
    \/ ~confirmDialogOpen /\ confirmDialogOpen'
    \/ ~panel.deleteDialogOpen /\ panel'.deleteDialogOpen
    \/ passwordDialog.isOpen /\ ~passwordDialog'.isOpen /\ app' = app

\* C30: an import, export, login-new-account, switch or delete is started
\* from the controls of AppContent only in a state where detection has ended
\* (isDetecting false) and the polled isRunning is true; isDetecting becomes
\* false and stays false, whether the path is found, not found, or the
\* detection throws.
C30_OperationGating ==
    /\ [][StartsOperation => ~app.isDetecting /\ app.isRunning]_vars
    /\ [][app.detect = "pending" /\ app'.detect # "pending" => ~app'.isDetecting]_vars
    /\ <>[](~app.isDetecting)

\* the detection has thrown, the host is seen running, and a delete started
\* from the panel is in flight
C30_Witness ==
    /\ app.detect = "thrown"
    /\ ~app.isDetecting
    /\ app.isRunning
    /\ Len(panel.calls) = 1
    /\ flows[1].pc = "password"
====
